---- MODULE Spec2Model ----
(***************************************************************************)
(* A state-machine model of the Boy emulator core: the processor's step    *)
(* (interrupt dispatch, HALT/STOP, EI/DI/RETI), the memory bus (routing,   *)
(* IF/IE bookkeeping, tick), the timer and the pixel generator's mode      *)
(* state machine.  Bytes are integers 0..255, words 0..65535; every        *)
(* update wraps like the Rust integer type it models.                      *)
(***************************************************************************)
EXTENDS Integers, Sequences, FiniteSets, TLC

VARIABLES
    cpu,              \* CPU { r, ime, ime_delay, halted, stopped }
    mmu,              \* MMU { cart, wram, hram, if_, ie, ppu, joypad, timer }
    phase,            \* position in GameBoy::run_frame: "host", "step", "tick"
    cycles,           \* machine cycles returned by the last CPU::step
    frame_ready,      \* value returned by the last MMU::tick
    fault,            \* "none", or the panic that ended the program
    overflow_checks,  \* build profile: TRUE = debug (overflow panics), FALSE = release (wraps)
    steps,            \* number of CPU::step calls made so far
    kind,             \* what the last CPU::step did
    op,               \* handler run by the last CPU::step ("none" when it fetched nothing)
    irq,              \* interrupt bits returned by the last timer/PPU tick
    pre,              \* IME, halted and IE & IF & 0x1F as the last CPU::step found them
    prev,             \* kind, op and pre of the CPU::step before the last
    elapsed,          \* dots handed to MMU::tick since power-on
    mark,             \* the last direct bus write: address, value, elapsed, the timer it left
    written           \* the last bytes written to the cartridge's registers, -1 for none

vars ==
    <<cpu, mmu, phase, cycles, frame_ready, fault, overflow_checks, steps, kind, op, irq,
      pre, prev, elapsed, mark, written>>

-----------------------------------------------------------------------------
(* Fixed-width arithmetic *)

Wrap8(x) == x % 256

Wrap16(x) == x % 65536

BitOf(v, n) == (v \div (2^n)) % 2

TestBit(v, n) == BitOf(v, n) = 1

RECURSIVE AndBits(_, _, _)
AndBits(x, y, n) ==
    IF n = 0 THEN 0
    ELSE (x % 2) * (y % 2) + 2 * AndBits(x \div 2, y \div 2, n - 1)

\* the bitwise AND of two nibbles, tabulated once
And4Table == [x \in 0..15 |-> [y \in 0..15 |-> AndBits(x, y, 4)]]

\* u8 & u8
And8(x, y) == And4Table[x % 16][y % 16] + 16 * And4Table[x \div 16][y \div 16]

\* u8 | u8
Or8(x, y) == x + y - And8(x, y)

\* !u8
Not8(x) == 255 - x

\* u8 << n with the shift amount masked to the type's width, as a release build computes it
Shl8(x, n) == (x * (2^(n % 8))) % 256

\* a shift amount that overflows u8: a debug build panics on it
ShlOverflows(n) == n >= 8

Lo(w) == w % 256

Hi(w) == w \div 256

-----------------------------------------------------------------------------
(* Sparse byte arrays: a function from the indices written so far; every   *)
(* array of the program is zero-initialised.                               *)

EmptyMem == <<>>

MemGet(mem, i) == IF i \in DOMAIN mem THEN mem[i] ELSE 0

MemSet(mem, i, v) == (i :> v) @@ mem

-----------------------------------------------------------------------------
(* Interrupts: src/boy-core/src/interrupt.rs *)

INTERRUPT_MASK == 31

INTERRUPT_CYCLES == 5

VBlank == 0
Stat == 1
Timer == 2
Serial == 3
Joypad == 4

Interrupts == {VBlank, Stat, Timer, Serial, Joypad}

\* Interrupt::bit
InterruptBit(i) == 2^i

\* Interrupt::vector
InterruptVector(i) ==
    CASE i = VBlank -> 64
      [] i = Stat   -> 72
      [] i = Timer  -> 80
      [] i = Serial -> 88
      [] i = Joypad -> 96

Some(i) == [tag |-> "some", irq |-> i]
None == [tag |-> "none", irq |-> 0]
Panic == [tag |-> "panic", irq |-> 0]

\* highest_priority: each test is pending & (1 << X.bit()), the shift taken
\* in u8.  X.bit() is already the mask 1 << X, so the tested masks are
\* 1<<1, 1<<2, 1<<4, 1<<8 and 1<<16; the last two overflow the shift.
HighestPriority(pending, checks) ==
    IF And8(pending, Shl8(1, InterruptBit(VBlank))) # 0 THEN Some(VBlank)
    ELSE IF And8(pending, Shl8(1, InterruptBit(Stat))) # 0 THEN Some(Stat)
    ELSE IF And8(pending, Shl8(1, InterruptBit(Timer))) # 0 THEN Some(Timer)
    ELSE IF checks /\ ShlOverflows(InterruptBit(Serial)) THEN Panic
    ELSE IF And8(pending, Shl8(1, InterruptBit(Serial))) # 0 THEN Some(Serial)
    ELSE IF checks /\ ShlOverflows(InterruptBit(Joypad)) THEN Panic
    ELSE IF And8(pending, Shl8(1, InterruptBit(Joypad))) # 0 THEN Some(Joypad)
    ELSE None

-----------------------------------------------------------------------------
(* Register file: src/boy-core/src/cpu/registers.rs *)

Z_BIT == 128
N_BIT == 64
H_BIT == 32
C_BIT == 16

BuildW(hi, lo) == hi * 256 + lo

RegAf(r) == BuildW(r.a, r.f)

\* set_af without the 0xF0 mask
SetAfUnmasked(r, value) == [r EXCEPT !.a = Hi(value), !.f = Lo(value)]

\* Registers::set_af
SetAf(r, value) == [r EXCEPT !.a = Hi(value), !.f = And8(Lo(value), 240)]

RegBc(r) == BuildW(r.b, r.c)

SetBc(r, value) == [r EXCEPT !.b = Hi(value), !.c = Lo(value)]

\* Registers::de
RegDe(r) == BuildW(r.d, r.e)

SetDe(r, value) == [r EXCEPT !.d = Hi(value), !.e = Lo(value)]

\* Registers::hl
RegHl(r) == BuildW(r.h, r.l)

SetHl(r, value) == [r EXCEPT !.h = Hi(value), !.l = Lo(value)]

SetFlagBit(r, bit, v) ==
    [r EXCEPT !.f = IF v THEN Or8(r.f, bit) ELSE And8(r.f, Not8(bit))]

SetZ(r, v) == SetFlagBit(r, Z_BIT, v)
SetN(r, v) == SetFlagBit(r, N_BIT, v)
SetH(r, v) == SetFlagBit(r, H_BIT, v)
SetC(r, v) == SetFlagBit(r, C_BIT, v)

\* CPU::set_flags
SetFlags(r, z, n, h, c) == SetC(SetH(SetN(SetZ(r, z), n), h), c)

\* Registers::default()
RegistersDefault ==
    [a |-> 0, f |-> 0, b |-> 0, c |-> 0, d |-> 0, e |-> 0, h |-> 0, l |-> 0,
     sp |-> 0, pc |-> 0]

-----------------------------------------------------------------------------
(* Timer: src/boy-core/src/timer.rs *)

DIV_ADDR == 65284
TIMA_ADDR == 65285
TMA_ADDR == 65286
TAC_ADDR == 65287

\* Timer::default()
TimerDefault == [div |-> 0, tima |-> 0, tma |-> 0, tac |-> 0, tima_acc |-> 0]

\* Timer::rb
TimerRb(t, addr) ==
    CASE addr = DIV_ADDR  -> Hi(t.div)
      [] addr = TIMA_ADDR -> t.tima
      [] addr = TMA_ADDR  -> t.tma
      [] addr = TAC_ADDR  -> t.tac

\* Timer::wb with the DIV arm clearing only the byte that 0xFF04 shows
TimerWbKeepsLowByte(t, addr, value) ==
    CASE addr = DIV_ADDR  -> [t EXCEPT !.div = Lo(t.div)]
      [] addr = TIMA_ADDR -> [t EXCEPT !.tima = value]
      [] addr = TMA_ADDR  -> [t EXCEPT !.tma = value]
      [] addr = TAC_ADDR  -> [t EXCEPT !.tac = And8(value, 7)]

\* Timer::wb
TimerWb(t, addr, value) ==
    CASE addr = DIV_ADDR  -> [t EXCEPT !.div = 0]
      [] addr = TIMA_ADDR -> [t EXCEPT !.tima = value]
      [] addr = TMA_ADDR  -> [t EXCEPT !.tma = value]
      [] addr = TAC_ADDR  -> [t EXCEPT !.tac = And8(value, 7)]

\* the clock selection with the 64- and 256-dot periods exchanged
TimerPeriodSwapped(tac) ==
    CASE tac % 4 = 0 -> 1024
      [] tac % 4 = 1 -> 16
      [] tac % 4 = 2 -> 256
      [] tac % 4 = 3 -> 64

\* the clock selection of Timer::tick
TimerPeriod(tac) ==
    CASE tac % 4 = 0 -> 1024
      [] tac % 4 = 1 -> 16
      [] tac % 4 = 2 -> 64
      [] tac % 4 = 3 -> 256

\* the while loop keeping the wrapped sum on overflow, TIMA restarting at 0
RECURSIVE TimaLoopWrapsToZero(_, _, _)
TimaLoopWrapsToZero(t, period, overflowed) ==
    IF t.tima_acc < period THEN [timer |-> t, overflowed |-> overflowed]
    ELSE LET did_overflow == t.tima = 255
             t1 == [t EXCEPT !.tima_acc = @ - period, !.tima = Wrap8(t.tima + 1)]
         IN TimaLoopWrapsToZero(t1, period, overflowed \/ did_overflow)

\* the while loop of Timer::tick
RECURSIVE TimaLoop(_, _, _)
TimaLoop(t, period, overflowed) ==
    IF t.tima_acc < period THEN [timer |-> t, overflowed |-> overflowed]
    ELSE LET did_overflow == t.tima = 255
             t1 == [t EXCEPT !.tima_acc = @ - period,
                             !.tima = IF did_overflow THEN t.tma ELSE t.tima + 1]
         IN TimaLoop(t1, period, overflowed \/ did_overflow)

\* Timer::tick.  tima_acc is a u32 that the loop leaves below the period
\* (at most 1024) and a tick adds at most 4 * 255 to: its wrapping add never wraps.
TimerTick(t, tcycles) ==
    LET t1 == [t EXCEPT !.div = Wrap16(t.div + Wrap16(tcycles))]
    IN IF And8(t1.tac, 4) = 0 THEN [timer |-> t1, overflowed |-> FALSE]
       ELSE TimaLoop([t1 EXCEPT !.tima_acc = @ + tcycles],
                     TimerPeriod(t1.tac), FALSE)

\* The bus ORs the timer's result into the interrupt byte; the Timer::tick of
\* the bus's own revision is not among the sources, so the conversion of
\* "overflowed" to the Timer bit follows the specification (section 4.6).
TimerIrqBits(overflowed) == IF overflowed THEN InterruptBit(Timer) ELSE 0

-----------------------------------------------------------------------------
(* Pixel generator: src/boy-core/src/ppu.rs *)

LCDC_ADDR == 65344
STAT_ADDR == 65345
SCY_ADDR == 65346
SCX_ADDR == 65347
LY_ADDR == 65348
LYC_ADDR == 65349
DMA_ADDR == 65350
BGP_ADDR == 65351
OBP0_ADDR == 65352
OBP1_ADDR == 65353
WY_ADDR == 65354
WX_ADDR == 65355

SCREEN_W == 160
SCREEN_H == 144
VBLANK_LINES == 10
OAM_END == 80
DRAW_END == OAM_END + 172
SCANLINE_END == 456
MAX_SPRITES_PER_LINE == 10

STAT_LY_LYC == 6
STAT_OAM_SCAN == 5
STAT_VBLANK == 4
STAT_HBLANK == 3

\* enum Mode
ModeHBlank == 0
ModeVBlank == 1
ModeOamScan == 2
ModeDrawing == 3

\* PPU::init (the frame buffer is not part of this model's state)
PpuInit ==
    [vram |-> EmptyMem, oam |-> EmptyMem,
     lcdc |-> 145, stat |-> 133, scy |-> 0, scx |-> 0, ly |-> 0, lyc |-> 0,
     bgp |-> 252, obp0 |-> 0, obp1 |-> 0, wy |-> 0, wx |-> 0,
     mode |-> ModeVBlank, dot |-> 0, frame_buffer |-> EmptyMem, bg_color |-> EmptyMem,
     stat_latch |-> FALSE]

\* lcd_off answering that the display is off whatever LCDC holds
LcdOffAlways(p) == TRUE

\* PPU::lcd_off
LcdOff(p) == And8(p.lcdc, 128) = 0

\* PPU::set_mode
SetMode(p, mode) == [p EXCEPT !.mode = mode, !.stat = Or8(And8(p.stat, 252), mode)]

\* PPU::stat_condition (never called with bit <= 2)
StatCondition(p, bit) == TestBit(p.stat, bit)

\* ly_lyc_check leaving the coincidence flag set once it was set
LyLycCheckNeverClears(p) ==
    IF p.ly = p.lyc
    THEN LET p1 == [p EXCEPT !.stat = Or8(p.stat, 4)]
         IN [ppu |-> p1, hit |-> StatCondition(p1, STAT_LY_LYC)]
    ELSE [ppu |-> p, hit |-> FALSE]

\* PPU::ly_lyc_check
LyLycCheck(p) ==
    IF p.ly = p.lyc
    THEN LET p1 == [p EXCEPT !.stat = Or8(p.stat, 4)]
         IN [ppu |-> p1, hit |-> StatCondition(p1, STAT_LY_LYC)]
    ELSE [ppu |-> [p EXCEPT !.stat = And8(p.stat, 251)], hit |-> FALSE]

\* the reset leaving the scanline counter where it was
PpuResetKeepsLine(p) ==
    LET p1 == SetMode(p, ModeHBlank)
        p2 == [p1 EXCEPT !.dot = 0, !.stat_latch = FALSE]
    IN LyLycCheck(p2).ppu

\* PPU::reset
PpuReset(p) ==
    LET p1 == SetMode(p, ModeHBlank)
        p2 == [p1 EXCEPT !.ly = 0, !.dot = 0, !.stat_latch = FALSE]
    IN LyLycCheck(p2).ppu

\* the while loop raising V-Blank on every line of the blanking period
RECURSIVE PpuLinesVBlankEveryLine(_, _, _)
PpuLinesVBlankEveryLine(p, interrupts, ready) ==
    IF p.dot < SCANLINE_END
    THEN [ppu |-> p, interrupts |-> interrupts, frame_ready |-> ready]
    ELSE LET ly1 == Wrap8(p.ly + 1)
             wraps == ly1 = SCREEN_H + VBLANK_LINES
             chk == LyLycCheck([p EXCEPT !.ly = IF wraps THEN 0 ELSE ly1])
             i1 == IF ly1 >= SCREEN_H /\ ~wraps
                   THEN Or8(interrupts, InterruptBit(VBlank)) ELSE interrupts
             i2 == IF chk.hit THEN Or8(i1, InterruptBit(Stat)) ELSE i1
         IN PpuLinesVBlankEveryLine([chk.ppu EXCEPT !.dot = @ - SCANLINE_END], i2,
                                    ready \/ wraps)

\* the while loop restarting each line at dot 0, the excess dots dropped
RECURSIVE PpuLinesDropsExcess(_, _, _)
PpuLinesDropsExcess(p, interrupts, ready) ==
    IF p.dot < SCANLINE_END
    THEN [ppu |-> p, interrupts |-> interrupts, frame_ready |-> ready]
    ELSE LET ly1 == Wrap8(p.ly + 1)
             vblank == ly1 = SCREEN_H
             wraps == ~vblank /\ ly1 = SCREEN_H + VBLANK_LINES
             chk == LyLycCheck([p EXCEPT !.ly = IF wraps THEN 0 ELSE ly1])
             i1 == IF vblank THEN Or8(interrupts, InterruptBit(VBlank)) ELSE interrupts
             i2 == IF chk.hit THEN Or8(i1, InterruptBit(Stat)) ELSE i1
         IN PpuLinesDropsExcess([chk.ppu EXCEPT !.dot = 0], i2, ready \/ wraps)

\* the while loop of PPU::tick: one pass per completed scanline
RECURSIVE PpuLines(_, _, _)
PpuLines(p, interrupts, ready) ==
    IF p.dot < SCANLINE_END
    THEN [ppu |-> p, interrupts |-> interrupts, frame_ready |-> ready]
    ELSE LET ly1 == Wrap8(p.ly + 1)
             vblank == ly1 = SCREEN_H
             wraps == ~vblank /\ ly1 = SCREEN_H + VBLANK_LINES
             chk == LyLycCheck([p EXCEPT !.ly = IF wraps THEN 0 ELSE ly1])
             i1 == IF vblank THEN Or8(interrupts, InterruptBit(VBlank)) ELSE interrupts
             i2 == IF chk.hit THEN Or8(i1, InterruptBit(Stat)) ELSE i1
         IN PpuLines([chk.ppu EXCEPT !.dot = @ - SCANLINE_END], i2, ready \/ wraps)

\* PPU::bg_window_enable, window_enable, obj_enable, obj_size (the height)
BgWindowEnable(p) == TestBit(p.lcdc, 0)

WindowEnable(p) ==
    /\ TestBit(p.lcdc, 5) /\ BgWindowEnable(p)
    /\ p.ly >= p.wy /\ p.ly < SCREEN_H /\ p.wx <= 166

ObjEnable(p) == TestBit(p.lcdc, 1) /\ p.ly < SCREEN_H

ObjHeight(p) == IF TestBit(p.lcdc, 2) THEN 16 ELSE 8

\* PPU::bg_tile_map_area, window_tile_map_area
BgTileMapArea(p) == IF TestBit(p.lcdc, 3) THEN 39936 ELSE 38912

WindowTileMapArea(p) == IF TestBit(p.lcdc, 6) THEN 39936 ELSE 38912

\* self.rb(addr) inside the pixel generator, addr in video RAM
VramAt(p, addr) == MemGet(p.vram, addr - 32768)

\* the address of a tile's row: tile_data_area() + index * 16 with the index
\* unsigned from 0x8000 or signed from 0x9000, + pixel_row * 2
TileRowAddr(p, tile_index, pixel_row) ==
    (IF TestBit(p.lcdc, 4) THEN 32768 + tile_index * 16
     ELSE 36864 + (IF tile_index >= 128 THEN tile_index - 256 ELSE tile_index) * 16)
    + pixel_row * 2

\* ((high >> bit) & 1) << 1 | ((low >> bit) & 1) of the row at tile_addr;
\* video RAM that was never written holds zeros at every address
ColorId(p, tile_addr, bit) ==
    IF DOMAIN p.vram = {} THEN 0
    ELSE 2 * BitOf(VramAt(p, tile_addr + 1), bit) + BitOf(VramAt(p, tile_addr), bit)

\* (palette >> (color_id * 2)) & 0b11
Shade(palette, color_id) == (palette \div (4 ^ color_id)) % 4

Columns == 0..(SCREEN_W - 1)

\* the row of frame_buffer and of bg_color at LY, as the arrays hold it
CurrentLine(p) ==
    [shade |-> [x \in Columns |-> MemGet(p.frame_buffer, p.ly * SCREEN_W + x)],
     color |-> [x \in Columns |-> MemGet(p.bg_color, p.ly * SCREEN_W + x)]]

\* the colour id render_bg_scanline finds for column x
BgColorId(p, x) ==
    LET bg_y == (p.scy + p.ly) % 256
        bg_x == (p.scx + x) % 256
        map_addr == BgTileMapArea(p) + ((bg_y \div 8) * 32 + (bg_x \div 8))
    IN ColorId(p, TileRowAddr(p, VramAt(p, map_addr), bg_y % 8), 7 - (bg_x % 8))

\* PPU::render_bg_scanline
RenderBgScanline(p, line) ==
    IF ~BgWindowEnable(p) THEN [line EXCEPT !.shade = [x \in Columns |-> 0]]
    ELSE [shade |-> [x \in Columns |-> Shade(p.bgp, BgColorId(p, x))],
          color |-> [x \in Columns |-> BgColorId(p, x)]]

\* the colour id render_window_scanline finds for column x
WindowColorId(p, x) ==
    LET win_y == p.ly - p.wy
        win_x == x - (p.wx - 7)
        map_addr == WindowTileMapArea(p) + ((win_y \div 8) * 32 + (win_x \div 8))
    IN ColorId(p, TileRowAddr(p, VramAt(p, map_addr), win_y % 8), 7 - (win_x % 8))

\* PPU::render_window_scanline
RenderWindowScanline(p, line) ==
    IF ~WindowEnable(p) THEN line
    ELSE [shade |-> [x \in Columns |->
                        IF x >= p.wx - 7 THEN Shade(p.bgp, WindowColorId(p, x))
                        ELSE line.shade[x]],
          color |-> [x \in Columns |->
                        IF x >= p.wx - 7 THEN WindowColorId(p, x) ELSE line.color[x]]]

\* byte i of OAM entry e
OamByte(p, e, i) == MemGet(p.oam, 4 * e + i)

\* the line of a sprite counted from its Y byte without the 16 lines above the
\* screen
ObjLineFromTop(p, e) == Wrap8(p.ly + 256 - OamByte(p, e, 0))

\* let line = self.ly.wrapping_sub(sprite_y), sprite_y = obj_y.wrapping_sub(16)
ObjLine(p, e) == Wrap8(p.ly + 256 - Wrap8(OamByte(p, e, 0) + 256 - 16))

\* the colour id of entry e at column x of the screen, 0 where the entry has
\* no pixel
ObjColorId(p, e, x) ==
    LET attr == OamByte(p, e, 3)
        obj_h == ObjHeight(p)
        pixel_col == x - Wrap8(OamByte(p, e, 1) + 256 - 8)
        row0 == IF TestBit(attr, 6) THEN obj_h - 1 - ObjLine(p, e) ELSE ObjLine(p, e)
        index == IF obj_h = 16 THEN And8(OamByte(p, e, 2), 254) + (row0 \div 8)
                 ELSE OamByte(p, e, 2)
        pixel_row == IF obj_h = 16 THEN row0 % 8 ELSE row0
        tile_addr == 32768 + index * 16 + pixel_row * 2
    IN IF pixel_col \in 0..7
       THEN ColorId(p, tile_addr, IF TestBit(attr, 5) THEN pixel_col ELSE 7 - pixel_col)
       ELSE 0

\* the inner loop of render_objects_scaline for entry e
DrawObject(p, e, line) ==
    LET attr == OamByte(p, e, 3)
        palette == IF TestBit(attr, 4) THEN p.obp1 ELSE p.obp0
        sprite_x == Wrap8(OamByte(p, e, 1) + 256 - 8)
        Drawn(x) == /\ ObjColorId(p, e, x) # 0
                    /\ ~(TestBit(attr, 7) /\ line.color[x] # 0)
        Over(drawn) == [x \in drawn |-> Shade(palette, ObjColorId(p, e, x))] @@ line.shade
    IN [line EXCEPT !.shade = Over({x \in sprite_x..(sprite_x + 7) : x \in Columns /\ Drawn(x)})]

\* the loop over self.oam.chunks_exact(4) from entry e on, drawn entries
\* having been counted so far
RECURSIVE ObjectsFrom(_, _, _, _)
ObjectsFrom(p, e, drawn, line) ==
    IF e = 40 THEN line
    ELSE IF ObjLine(p, e) >= ObjHeight(p) THEN ObjectsFrom(p, e + 1, drawn, line)
    ELSE IF drawn + 1 >= MAX_SPRITES_PER_LINE THEN DrawObject(p, e, line)
    ELSE CHOOSE done \in {ObjectsFrom(p, e + 1, drawn + 1, l) :
                             l \in {DrawObject(p, e, line)}} : TRUE

\* PPU::render_objects_scaline
RenderObjectsScanline(p, line) == IF ~ObjEnable(p) THEN line ELSE ObjectsFrom(p, 0, 0, line)

\* an array of SCREEN_W * SCREEN_H bytes with row taking values; the bytes
\* that are zero are the ones left out
PutRow(buf, row, values) ==
    LET Put(keep, set) ==
            IF keep \cup set = {} THEN EmptyMem
            ELSE [i \in keep \cup set |-> IF i \in keep THEN buf[i] ELSE values[i % SCREEN_W]]
    IN CHOOSE put \in {Put(keep, set) :
                          keep \in {{i \in DOMAIN buf : i \div SCREEN_W # row}},
                          set \in {{row * SCREEN_W + x : x \in {c \in Columns : values[c] # 0}}}} :
          TRUE

\* render_bg_scanline, render_window_scanline, render_objects_scaline in a
\* row, each working on the line the one before left: every index they write
\* is self.ly * SCREEN_W + x
RenderScanline(p0) ==
    LET Store(p, line) == [p EXCEPT !.frame_buffer = PutRow(@, p.ly, line.shade),
                                    !.bg_color = PutRow(@, p.ly, line.color)]
        Objects(p, line) ==
            CHOOSE q \in {Store(p, l) : l \in {RenderObjectsScanline(p, line)}} : TRUE
        Window(p, line) ==
            CHOOSE q \in {Objects(p, l) : l \in {RenderWindowScanline(p, line)}} : TRUE
        Bg(p, line) ==
            CHOOSE q \in {Window(p, l) : l \in {RenderBgScanline(p, line)}} : TRUE
    IN CHOOSE q \in {Bg(p, CurrentLine(p)) : p \in {p0}} : TRUE

\* the mode selection with the OAM-scan boundary taken one dot late
PpuSelectModeLateOam(p) ==
    IF p.ly >= SCREEN_H THEN SetMode(p, ModeVBlank)
    ELSE IF p.dot <= OAM_END THEN SetMode(p, ModeOamScan)
    ELSE IF p.dot < DRAW_END THEN SetMode(p, ModeDrawing)
    ELSE IF p.mode # ModeHBlank THEN SetMode(p, ModeHBlank)
    ELSE p

\* the mode selection compositing the scanline in every tick that ends in
\* H-blank
PpuSelectModeRendersAgain(p) ==
    IF p.ly >= SCREEN_H THEN SetMode(p, ModeVBlank)
    ELSE IF p.dot < OAM_END THEN SetMode(p, ModeOamScan)
    ELSE IF p.dot < DRAW_END THEN SetMode(p, ModeDrawing)
    ELSE RenderScanline(SetMode(p, ModeHBlank))

\* the mode selection of PPU::tick; entering H-blank is where the scanline
\* is rendered into the frame buffer
PpuSelectMode(p) ==
    IF p.ly >= SCREEN_H THEN SetMode(p, ModeVBlank)
    ELSE IF p.dot < OAM_END THEN SetMode(p, ModeOamScan)
    ELSE IF p.dot < DRAW_END THEN SetMode(p, ModeDrawing)
    ELSE IF p.mode # ModeHBlank THEN RenderScanline(SetMode(p, ModeHBlank))
    ELSE p

\* the match of PPU::tick without a select bit for the OAM scan
ModeStatBitNoOamScan(mode) ==
    CASE mode = ModeHBlank  -> STAT_HBLANK
      [] mode = ModeVBlank  -> STAT_VBLANK
      [] mode = ModeOamScan -> 0
      [] mode = ModeDrawing -> 0

\* the STAT select bit of the mode entered (0: none)
ModeStatBit(mode) ==
    CASE mode = ModeHBlank  -> STAT_HBLANK
      [] mode = ModeVBlank  -> STAT_VBLANK
      [] mode = ModeOamScan -> STAT_OAM_SCAN
      [] mode = ModeDrawing -> 0

\* PPU::tick
PpuTick(p, tcycles) ==
    IF LcdOff(p) THEN [ppu |-> p, interrupts |-> 0, frame_ready |-> FALSE]
    ELSE LET start_mode == p.mode
             i0 == IF p.stat_latch THEN InterruptBit(Stat) ELSE 0
             p1 == [p EXCEPT !.stat_latch = FALSE,
                             !.dot = Wrap16(p.dot + Wrap16(tcycles))]
             ModeEdge(lines, p2) ==
                 LET bit == ModeStatBit(p2.mode)
                     edge == start_mode # p2.mode /\ bit # 0 /\ StatCondition(p2, bit)
                 IN [ppu |-> p2,
                     interrupts |-> IF edge THEN Or8(lines.interrupts, InterruptBit(Stat))
                                    ELSE lines.interrupts,
                     frame_ready |-> lines.frame_ready]
             SelectMode(lines) ==
                 CHOOSE t \in {ModeEdge(lines, p2) : p2 \in {PpuSelectMode(lines.ppu)}} : TRUE
         IN CHOOSE t \in {SelectMode(lines) : lines \in {PpuLines(p1, i0, FALSE)}} : TRUE

\* PPU::rb (addresses the bus routes here)
PpuRb(p, addr) ==
    CASE addr \in 32768..40959 -> MemGet(p.vram, addr - 32768)
      [] addr \in 65024..65183 -> MemGet(p.oam, addr - 65024)
      [] addr = LCDC_ADDR -> p.lcdc
      [] addr = STAT_ADDR -> p.stat
      [] addr = SCY_ADDR -> p.scy
      [] addr = SCX_ADDR -> p.scx
      [] addr = LY_ADDR -> p.ly
      [] addr = LYC_ADDR -> p.lyc
      [] addr = BGP_ADDR -> p.bgp
      [] addr = OBP0_ADDR -> p.obp0
      [] addr = OBP1_ADDR -> p.obp1
      [] addr = WY_ADDR -> p.wy
      [] addr = WX_ADDR -> p.wx

\* the LCDC arm of PPU::wb
PpuWriteLcdc(p, value) ==
    LET was_on == ~LcdOff(p)
        p1 == [p EXCEPT !.lcdc = value]
    IN IF was_on /\ LcdOff(p1) THEN PpuReset(p1) ELSE p1

\* the LYC arm without the deferred STAT request
PpuWriteLycNoLatch(p, value) ==
    LET need_check == p.lyc # value
        p1 == [p EXCEPT !.lyc = value]
    IN IF ~need_check THEN p1 ELSE LyLycCheck(p1).ppu

\* the LYC arm of PPU::wb
PpuWriteLyc(p, value) ==
    LET need_check == p.lyc # value
        p1 == [p EXCEPT !.lyc = value]
        chk == LyLycCheck(p1)
    IN IF ~need_check THEN p1
       ELSE IF chk.hit THEN [chk.ppu EXCEPT !.stat_latch = TRUE]
       ELSE chk.ppu

\* PPU::wb
PpuWb(p, addr, value) ==
    CASE addr \in 32768..40959 -> [p EXCEPT !.vram = MemSet(@, addr - 32768, value)]
      [] addr \in 65024..65183 -> [p EXCEPT !.oam = MemSet(@, addr - 65024, value)]
      [] addr = LCDC_ADDR -> PpuWriteLcdc(p, value)
      [] addr = STAT_ADDR ->
            [p EXCEPT !.stat = Or8(Or8(And8(p.stat, 7), And8(value, 120)), 128)]
      [] addr = SCY_ADDR -> [p EXCEPT !.scy = value]
      [] addr = SCX_ADDR -> [p EXCEPT !.scx = value]
      [] addr = LY_ADDR -> p
      [] addr = LYC_ADDR -> PpuWriteLyc(p, value)
      [] addr = BGP_ADDR -> [p EXCEPT !.bgp = value]
      [] addr = OBP0_ADDR -> [p EXCEPT !.obp0 = value]
      [] addr = OBP1_ADDR -> [p EXCEPT !.obp1 = value]
      [] addr = WY_ADDR -> [p EXCEPT !.wy = value]
      [] addr = WX_ADDR -> [p EXCEPT !.wx = value]

-----------------------------------------------------------------------------
(* Joypad: src/core/src/joypad.rs *)

JOYP_ADDR == 65280

\* Joypad::new; states is the set of keys held down
JoypadNew == [joyp |-> 255, states |-> {}]

\* Joypad::tick comparing the samples for any difference
JoypadTickAnyChange(j, new_states) ==
    [joypad |-> [j EXCEPT !.states = new_states],
     interrupts |-> IF new_states # j.states THEN InterruptBit(Joypad) ELSE 0]

\* Joypad::tick
JoypadTick(j, new_states) ==
    [joypad |-> [j EXCEPT !.states = new_states],
     interrupts |-> IF new_states \ j.states # {} THEN InterruptBit(Joypad) ELSE 0]

Released(j, key) == IF key \in j.states THEN 0 ELSE 1

\* Joypad::build_buttons
BuildButtons(j) ==
    8 * Released(j, "start") + 4 * Released(j, "select")
    + 2 * Released(j, "b") + Released(j, "a")

\* Joypad::build_dpad
BuildDpad(j) ==
    8 * Released(j, "down") + 4 * Released(j, "up")
    + 2 * Released(j, "left") + Released(j, "right")

\* Joypad::build_joyp with the two groups exchanged
BuildJoypGroupsSwapped(j) ==
    LET sel == And8(j.joyp, 48)
    IN CASE sel = 0  -> Or8(j.joyp, And8(BuildButtons(j), BuildDpad(j)))
         [] sel = 16 -> Or8(j.joyp, BuildDpad(j))
         [] sel = 32 -> Or8(j.joyp, BuildButtons(j))
         [] sel = 48 -> Or8(j.joyp, 15)

\* Joypad::build_joyp
BuildJoyp(j) ==
    LET sel == And8(j.joyp, 48)
    IN CASE sel = 0  -> Or8(j.joyp, And8(BuildButtons(j), BuildDpad(j)))
         [] sel = 16 -> Or8(j.joyp, BuildButtons(j))
         [] sel = 32 -> Or8(j.joyp, BuildDpad(j))
         [] sel = 48 -> Or8(j.joyp, 15)

\* Joypad::wb
JoypadWb(j, value) == [j EXCEPT !.joyp = And8(value, 48)]

-----------------------------------------------------------------------------
(* Plain cartridge: src/core/src/mbc/rom_only.rs.  rom holds the image's   *)
(* data bytes; the instruction stream is an input of CPU::step.            *)

RomOnlyNew(ram_size) ==
    [controller |-> "RomOnly", rom |-> EmptyMem, eram |-> EmptyMem, ram_size |-> ram_size]

InRom(addr) == addr \in 0..32767

InEram(addr) == addr \in 40960..49151

\* RomOnly::rb / wb index eram, a vector of ram_size bytes
RomOnlyPanics(c, addr) == InEram(addr) /\ addr - 40960 >= c.ram_size

RomOnlyRb(c, addr) ==
    IF InRom(addr) THEN MemGet(c.rom, addr) ELSE MemGet(c.eram, addr - 40960)

RomOnlyWb(c, addr, value) ==
    IF InRom(addr) THEN c ELSE [c EXCEPT !.eram = MemSet(@, addr - 40960, value)]

-----------------------------------------------------------------------------
(* Cartridge image and header: src/core/src/cart.rs *)

HEADER_END == 335
OFFSET_CARTRIDGE_TYPE == 327
OFFSET_ROM_SIZE == 328
OFFSET_RAM_SIZE == 329

\* rom[off] of a ROM file of rom.len bytes: the header codes at their offsets,
\* and everywhere else a byte that tells its 16 KiB bank and its place in it
RomAt(rom, off) ==
    CASE off = OFFSET_CARTRIDGE_TYPE -> rom.type_code
      [] off = OFFSET_ROM_SIZE -> rom.rom_size_id
      [] off = OFFSET_RAM_SIZE -> rom.ram_size_id
      [] OTHER -> (3 * (off \div 16384) + off) % 256

\* ram_size_from_id; -1 where it panics
RamSizeFromId(id) ==
    CASE id = 0 -> 0
      [] id = 2 -> 8 * 1024
      [] id = 3 -> 32 * 1024
      [] id = 4 -> 128 * 1024
      [] id = 5 -> 64 * 1024
      [] OTHER -> -1

\* CartridgeType::from_code; "unreachable" where no arm matches
CartridgeTypeFromCode(code) ==
    LET Type(c, ram, battery, timer) ==
            [controller |-> c, has_ram |-> ram, has_battery |-> battery, has_timer |-> timer]
    IN CASE code = 0 -> Type("RomOnly", FALSE, FALSE, FALSE)
         [] code = 1 -> Type("Mbc1", FALSE, FALSE, FALSE)
         [] code = 2 -> Type("Mbc1", TRUE, FALSE, FALSE)
         [] code = 3 -> Type("Mbc1", TRUE, TRUE, FALSE)
         [] code = 5 -> Type("Mbc2", FALSE, FALSE, FALSE)
         [] code = 6 -> Type("Mbc2", FALSE, TRUE, FALSE)
         [] code = 15 -> Type("Mbc3", FALSE, TRUE, TRUE)
         [] code = 16 -> Type("Mbc3", TRUE, TRUE, TRUE)
         [] code = 17 -> Type("Mbc3", FALSE, FALSE, FALSE)
         [] code = 18 -> Type("Mbc3", TRUE, FALSE, FALSE)
         [] code = 19 -> Type("Mbc3", TRUE, TRUE, FALSE)
         [] code \in {8, 9, 11, 12, 13, 25, 26, 27, 28, 29, 30, 32, 34, 252, 253, 254, 255} ->
              Type("Missing", FALSE, FALSE, FALSE)
         [] OTHER -> Type("unreachable", FALSE, FALSE, FALSE)

-----------------------------------------------------------------------------
(* Type-1 controller: src/core/src/mbc/mbc1.rs *)

ROM_BANK_SIZE == 16384
RAM_BANK_SIZE == 8192

\* Mbc1::new
Mbc1New(rom, ram_size, has_ram, has_battery) ==
    [controller |-> "Mbc1", rom |-> rom, ram |-> EmptyMem, ram_size |-> ram_size,
     has_ram |-> has_ram, has_battery |-> has_battery,
     ram_enable |-> FALSE, rom_bank |-> 0, ram_bank_or_upper_rom |-> 0, banking_mode |-> 0]

\* Mbc1::selected_rom_bank; the upper bits are below bit 5, so | is +
Mbc1SelectedRomBank(c) ==
    LET lower_bank == IF c.rom_bank > 1 THEN c.rom_bank ELSE 1
    IN IF c.banking_mode = 1 THEN lower_bank
       ELSE c.ram_bank_or_upper_rom * 32 + lower_bank

\* Mbc1::selected_ram_bank
Mbc1SelectedRamBank(c) == IF c.banking_mode = 0 THEN 0 ELSE c.ram_bank_or_upper_rom

\* the index Mbc1::rb reads rom or ram at; "ram" only when RAM is read
Mbc1Index(c, addr) ==
    CASE addr \in 0..16383 ->
           [of |-> "rom",
            at |-> IF c.banking_mode = 0 THEN addr
                   ELSE addr + ROM_BANK_SIZE * Mbc1SelectedRomBank(c)]
      [] addr \in 16384..32767 ->
           [of |-> "rom", at |-> (addr - 16384) + ROM_BANK_SIZE * Mbc1SelectedRomBank(c)]
      [] addr \in 40960..49151 /\ c.has_ram /\ c.ram_enable ->
           [of |-> "ram", at |-> (addr - 40960) + RAM_BANK_SIZE * Mbc1SelectedRamBank(c)]
      [] OTHER -> [of |-> "none", at |-> 0]

\* Mbc1::rb
Mbc1Rb(c, addr) ==
    LET Read(i) == CASE i.of = "rom" -> RomAt(c.rom, i.at)
                     [] i.of = "ram" -> MemGet(c.ram, i.at)
                     [] OTHER -> 255
    IN Read(Mbc1Index(c, addr))

\* Mbc1::wb
Mbc1Wb(c, addr, value) ==
    CASE addr \in 0..8191 -> [c EXCEPT !.ram_enable = (value % 16 = 10)]
      [] addr \in 8192..16383 -> [c EXCEPT !.rom_bank = value % 32]
      [] addr \in 16384..24575 -> [c EXCEPT !.ram_bank_or_upper_rom = value % 4]
      [] addr \in 24576..32767 -> [c EXCEPT !.banking_mode = value % 2]
      [] addr \in 40960..49151 /\ c.ram_enable ->
           [c EXCEPT !.ram = MemSet(@, addr - 40960, value)]
      [] OTHER -> c

\* an index past the end of rom or ram
Mbc1Panics(c, addr, write) ==
    IF write THEN addr \in 40960..49151 /\ c.ram_enable /\ addr - 40960 >= c.ram_size
    ELSE LET Past(i) == \/ i.of = "rom" /\ i.at >= c.rom.len
                        \/ i.of = "ram" /\ i.at >= c.ram_size
         IN Past(Mbc1Index(c, addr))

-----------------------------------------------------------------------------
(* Type-2 controller: src/core/src/mbc/mbc2.rs *)

\* Mbc2::new
Mbc2New(rom, has_battery) ==
    [controller |-> "Mbc2", rom |-> rom, ram |-> EmptyMem, has_battery |-> has_battery,
     ram_enable |-> FALSE, rom_bank |-> 0]

\* the ram index of an address in 0xA000-0xBFFF
Mbc2RamIndex(addr) == IF addr <= 41471 THEN addr - 40960 ELSE (addr - 41472) % 512

\* Mbc2::rb
Mbc2Rb(c, addr) ==
    CASE addr \in 0..16383 -> RomAt(c.rom, addr)
      [] addr \in 16384..32767 -> RomAt(c.rom, (addr - 16384) + ROM_BANK_SIZE * c.rom_bank)
      [] addr \in 40960..49151 ->
           IF c.ram_enable THEN Or8(MemGet(c.ram, Mbc2RamIndex(addr)), 240) ELSE 255
      [] OTHER -> 255

\* Mbc2::wb
Mbc2Wb(c, addr, value) ==
    CASE addr \in 0..16383 ->
           IF TestBit(addr, 8)
           THEN [c EXCEPT !.rom_bank = IF value % 16 > 1 THEN value % 16 ELSE 1]
           ELSE [c EXCEPT !.ram_enable = (value % 16 = 10)]
      [] addr \in 40960..49151 /\ c.ram_enable ->
           [c EXCEPT !.ram = MemSet(@, Mbc2RamIndex(addr), Or8(value, 240))]
      [] OTHER -> c

-----------------------------------------------------------------------------
(* Real-time clock: src/core/src/mbc/rtc.rs *)

\* RTC::init; clock is the seconds SystemTime::now() is past startup
RtcInit ==
    [clock |-> 0, rtc_s |-> 0, rtc_m |-> 0, rtc_h |-> 0, rtc_dl |-> 0, rtc_dh |-> 0,
     latch |-> FALSE]

\* RTC::latch_values over RTC::get_counters
RtcLatchValues(rtc) ==
    [rtc EXCEPT !.rtc_s = rtc.clock % 60,
                !.rtc_m = (rtc.clock % 3600) \div 60,
                !.rtc_h = (rtc.clock % 86400) \div 3600,
                !.rtc_dl = (rtc.clock \div 86400) % 256,
                !.rtc_dh = ((rtc.clock \div 86400) \div 256) % 256]

\* RTC::latch taking the snapshot on every write of 0x01
RtcLatchOnEveryOne(rtc, value) ==
    IF value = 0 THEN [rtc EXCEPT !.latch = TRUE]
    ELSE IF value = 1 THEN RtcLatchValues([rtc EXCEPT !.latch = FALSE])
    ELSE [rtc EXCEPT !.latch = FALSE]

\* RTC::latch
RtcLatch(rtc, value) ==
    IF value = 0 THEN [rtc EXCEPT !.latch = TRUE]
    ELSE IF value = 1 /\ rtc.latch THEN RtcLatchValues([rtc EXCEPT !.latch = FALSE])
    ELSE [rtc EXCEPT !.latch = FALSE]

\* RTC::read_register
RtcReadRegister(rtc, register) ==
    CASE register = 8 -> rtc.rtc_s
      [] register = 9 -> rtc.rtc_m
      [] register = 10 -> rtc.rtc_h
      [] register = 11 -> rtc.rtc_dl
      [] register = 12 -> rtc.rtc_dh

\* RTC::write_regisetr
RtcWriteRegister(rtc, register, value) ==
    CASE register = 8 -> [rtc EXCEPT !.rtc_s = value]
      [] register = 9 -> [rtc EXCEPT !.rtc_m = value]
      [] register = 10 -> [rtc EXCEPT !.rtc_h = value]
      [] register = 11 -> [rtc EXCEPT !.rtc_dl = value]
      [] register = 12 -> [rtc EXCEPT !.rtc_dh = value]

-----------------------------------------------------------------------------
(* Type-3 controller: src/core/src/mbc/mbc3.rs *)

\* Mbc3::new
Mbc3New(rom, ram_size, has_ram, has_battery, has_timer) ==
    [controller |-> "Mbc3", rom |-> rom, ram |-> EmptyMem, ram_size |-> ram_size,
     has_ram |-> has_ram, has_battery |-> has_battery, has_timer |-> has_timer,
     ram_timer_enable |-> FALSE, rom_bank |-> 1, ram_bank_rtc_register |-> 0,
     rtc |-> IF has_timer THEN RtcInit ELSE "None"]

\* what an access to 0xA000-0xBFFF reaches: a ram index, an RTC register, or
\* nothing
Mbc3Selected(c, addr) ==
    CASE ~(addr \in 40960..49151 /\ c.has_ram /\ c.ram_timer_enable) -> [of |-> "none", at |-> 0]
      [] c.ram_bank_rtc_register <= 7 ->
           [of |-> "ram", at |-> (addr - 40960) + RAM_BANK_SIZE * c.ram_bank_rtc_register]
      [] c.has_timer -> [of |-> "rtc", at |-> c.ram_bank_rtc_register]
      [] OTHER -> [of |-> "none", at |-> 0]

\* Mbc3::rb
Mbc3Rb(c, addr) ==
    LET Read(i) == CASE i.of = "ram" -> MemGet(c.ram, i.at)
                     [] i.of = "rtc" -> RtcReadRegister(c.rtc, i.at)
                     [] OTHER -> 255
    IN CASE addr \in 0..16383 -> RomAt(c.rom, addr)
         [] addr \in 16384..32767 -> RomAt(c.rom, (addr - 16384) + ROM_BANK_SIZE * c.rom_bank)
         [] OTHER -> Read(Mbc3Selected(c, addr))

\* Mbc3::wb
Mbc3Wb(c, addr, value) ==
    LET Write(i) == CASE i.of = "ram" -> [c EXCEPT !.ram = MemSet(@, i.at, value)]
                      [] i.of = "rtc" -> [c EXCEPT !.rtc = RtcWriteRegister(@, i.at, value)]
                      [] OTHER -> c
    IN CASE addr \in 0..8191 ->
              IF value % 16 = 10 THEN [c EXCEPT !.ram_timer_enable = TRUE]
              ELSE IF value % 16 = 0 THEN [c EXCEPT !.ram_timer_enable = FALSE]
              ELSE c
         [] addr \in 8192..16383 ->
              [c EXCEPT !.rom_bank = IF value % 128 > 1 THEN value % 128 ELSE 1]
         [] addr \in 16384..24575 -> [c EXCEPT !.ram_bank_rtc_register = value % 16]
         [] addr \in 24576..32767 ->
              IF c.ram_timer_enable /\ c.has_timer
              THEN [c EXCEPT !.rtc = RtcLatch(@, value)]
              ELSE c
         [] addr \in 40960..49151 -> Write(Mbc3Selected(c, addr))
         [] OTHER -> c

-----------------------------------------------------------------------------
(* Cart: src/core/src/cart.rs, and Missing: src/core/src/mbc/mod.rs *)

\* Cart::from_bytes: the controller, or the reason there is none and the file
\* that was refused.  Mbc1::new, Mbc2::new and Mbc3::new have no parameter for
\* save_data.  Missing carries the file in place of Cart::header.
CartFromBytes(rom, save_data) ==
    LET type == CartridgeTypeFromCode(rom.type_code)
        ram_size == RamSizeFromId(rom.ram_size_id)
        Loaded(c) == [fault |-> "none", controller |-> c]
        Refused(f) == [fault |-> f, controller |-> [controller |-> "none", rom |-> rom]]
    IN CASE rom.len <= HEADER_END -> Refused("RomTooSmall")
         [] rom.rom_size_id > 8 \/ ram_size < 0 \/ type.controller = "unreachable" ->
              Refused("panic")
         [] type.controller = "RomOnly" -> Loaded(RomOnlyNew(ram_size))
         [] type.controller = "Mbc1" ->
              Loaded(Mbc1New(rom, ram_size, type.has_ram, type.has_battery))
         [] type.controller = "Mbc2" -> Loaded(Mbc2New(rom, type.has_battery))
         [] type.controller = "Mbc3" ->
              Loaded(Mbc3New(rom, ram_size, type.has_ram, type.has_battery, type.has_timer))
         [] OTHER -> Loaded([controller |-> "Missing", rom |-> rom])

\* Cart::rb
CartRb(c, addr) ==
    CASE c.controller = "RomOnly" -> RomOnlyRb(c, addr)
      [] c.controller = "Mbc1" -> Mbc1Rb(c, addr)
      [] c.controller = "Mbc2" -> Mbc2Rb(c, addr)
      [] c.controller = "Mbc3" -> Mbc3Rb(c, addr)

\* Cart::wb
CartWb(c, addr, value) ==
    CASE c.controller = "RomOnly" -> RomOnlyWb(c, addr, value)
      [] c.controller = "Mbc1" -> Mbc1Wb(c, addr, value)
      [] c.controller = "Mbc2" -> Mbc2Wb(c, addr, value)
      [] c.controller = "Mbc3" -> Mbc3Wb(c, addr, value)

\* the access panics: Missing always, the others on an index past the end of
\* rom or ram or on an RTC register that does not exist
CartPanics(c, addr, write) ==
    LET PastRom(bank) == InRom(addr) /\ ~write /\ (addr % 16384) + ROM_BANK_SIZE * bank >= c.rom.len
        Mbc3Past(i) == \/ i.of = "ram" /\ i.at >= c.ram_size
                       \/ i.of = "rtc" /\ i.at > 12
    IN CASE c.controller = "RomOnly" -> RomOnlyPanics(c, addr)
         [] c.controller = "Mbc1" -> Mbc1Panics(c, addr, write)
         [] c.controller = "Mbc2" -> PastRom(IF addr < 16384 THEN 0 ELSE c.rom_bank)
         [] c.controller = "Mbc3" ->
              \/ PastRom(IF addr < 16384 THEN 0 ELSE c.rom_bank)
              \/ Mbc3Past(Mbc3Selected(c, addr))
         [] OTHER -> TRUE

\* Option<Vec<u8>>::None
NoBytes == [some |-> FALSE, bytes |-> EmptyMem]

\* Cart::save: RomOnly::save returns None and Mbc1::save, Mbc2::save and
\* Mbc3::save have an empty body, with or without a battery
CartSave(c) == NoBytes

-----------------------------------------------------------------------------
(* Memory bus: src/core/src/mmu.rs *)

IF_ADDR == 65295

\* MMU::new
MmuNew ==
    [cart |-> RomOnlyNew(0), wram |-> EmptyMem, hram |-> EmptyMem,
     if_ |-> 224, ie |-> 0,
     ppu |-> PpuInit, joypad |-> JoypadNew, timer |-> TimerDefault]

\* the echo region reads and writes work RAM
Unecho(addr) == IF addr \in 57344..65023 THEN addr - 8192 ELSE addr

\* MMU::rb
Rb(m, addr0) ==
    LET addr == Unecho(addr0)
    IN CASE addr \in 0..32767 -> CartRb(m.cart, addr)
         [] addr \in 32768..40959 -> PpuRb(m.ppu, addr)
         [] addr \in 40960..49151 -> CartRb(m.cart, addr)
         [] addr \in 49152..57343 -> MemGet(m.wram, addr - 49152)
         [] addr \in 65024..65183 -> PpuRb(m.ppu, addr)
         [] addr \in 65184..65279 -> 255
         [] addr \in 65280..65407 ->
              (CASE addr = JOYP_ADDR -> BuildJoyp(m.joypad)
                 [] addr \in DIV_ADDR..TAC_ADDR -> TimerRb(m.timer, addr)
                 [] addr = DMA_ADDR -> 255
                 [] addr \in LCDC_ADDR..WX_ADDR /\ addr # DMA_ADDR -> PpuRb(m.ppu, addr)
                 [] addr = IF_ADDR -> Or8(m.if_, 224)
                 [] OTHER -> 255)
         [] addr \in 65408..65534 -> MemGet(m.hram, addr - 65408)
         [] addr = 65535 -> m.ie

\* MMU::rw
Rw(m, addr) == BuildW(Rb(m, Wrap16(addr + 1)), Rb(m, addr))

\* the transfer stopping one byte short, at i = 158
RECURSIVE DmaTransferShort(_, _, _, _)
DmaTransferShort(m, value, first, last) ==
    IF first = last
    THEN IF first = 159 THEN m
         ELSE [m EXCEPT !.ppu = PpuWb(@, 65024 + first, Rb(m, value * 256 + first))]
    ELSE CHOOSE done \in
              {DmaTransferShort(half, value, (first + last) \div 2 + 1, last) :
                  half \in {DmaTransferShort(m, value, first, (first + last) \div 2)}} : TRUE

\* MMU::dma_transfer: the passes i = first..last of its loop, in order.  The
\* range is halved, the second half starting from the bus the first half
\* leaves, so that the evaluation does not nest 160 deep.
RECURSIVE DmaTransfer(_, _, _, _)
DmaTransfer(m, value, first, last) ==
    IF first = last
    THEN [m EXCEPT !.ppu = PpuWb(@, 65024 + first, Rb(m, value * 256 + first))]
    ELSE CHOOSE done \in
              {DmaTransfer(half, value, (first + last) \div 2 + 1, last) :
                  half \in {DmaTransfer(m, value, first, (first + last) \div 2)}} : TRUE

\* MMU::wb
Wb(m, addr0, value) ==
    LET addr == Unecho(addr0)
    IN CASE addr \in 0..32767 -> [m EXCEPT !.cart = CartWb(@, addr, value)]
         [] addr \in 32768..40959 -> [m EXCEPT !.ppu = PpuWb(@, addr, value)]
         [] addr \in 40960..49151 -> [m EXCEPT !.cart = CartWb(@, addr, value)]
         [] addr \in 49152..57343 -> [m EXCEPT !.wram = MemSet(@, addr - 49152, value)]
         [] addr \in 65024..65183 -> [m EXCEPT !.ppu = PpuWb(@, addr, value)]
         [] addr \in 65184..65279 -> m
         [] addr \in 65280..65407 ->
              (CASE addr = JOYP_ADDR -> [m EXCEPT !.joypad = JoypadWb(@, value)]
                 [] addr \in DIV_ADDR..TAC_ADDR ->
                      [m EXCEPT !.timer = TimerWb(@, addr, value)]
                 [] addr = DMA_ADDR -> DmaTransfer(m, value, 0, 159)
                 [] addr \in LCDC_ADDR..WX_ADDR /\ addr # DMA_ADDR ->
                      [m EXCEPT !.ppu = PpuWb(@, addr, value)]
                 [] addr = IF_ADDR -> [m EXCEPT !.if_ = And8(value, 31)]
                 [] OTHER -> m)
         [] addr \in 65408..65534 -> [m EXCEPT !.hram = MemSet(@, addr - 65408, value)]
         [] addr = 65535 -> [m EXCEPT !.ie = value]

\* MMU::ww storing the high byte first
WwBigEndian(m, addr, value) == Wb(Wb(m, addr, Hi(value)), Wrap16(addr + 1), Lo(value))

\* MMU::ww
Ww(m, addr, value) == Wb(Wb(m, addr, Lo(value)), Wrap16(addr + 1), Hi(value))

\* MMU::pending_interrupts
PendingInterrupts(m) == And8(And8(m.ie, m.if_), INTERRUPT_MASK)

\* MMU::request_interrupt
RequestInterrupt(m, bits) == [m EXCEPT !.if_ = Or8(m.if_, bits)]

\* clear_interrupt written as if_ &= bit: keeps the bit, drops the rest
ClearInterruptKeepsBit(m, bit) == [m EXCEPT !.if_ = And8(m.if_, bit)]

\* MMU::clear_interrupt
ClearInterrupt(m, bit) == [m EXCEPT !.if_ = And8(m.if_, Not8(bit))]

\* to_tcycles
ToTcycles(c) == c * 4

\* MMU::handle_joypad
HandleJoypad(m, key_states) ==
    LET Request(t) ==
            LET m1 == [m EXCEPT !.joypad = t.joypad]
            IN IF t.interrupts # 0 THEN RequestInterrupt(m1, t.interrupts) ELSE m1
    IN Request(JoypadTick(m.joypad, key_states))

\* MMU::tick storing the raised bits into IF instead of merging them
MmuTickOverwritesIf(m, c) ==
    LET Merge(t, p) ==
            LET interrupts == Or8(TimerIrqBits(t.overflowed), p.interrupts)
                m1 == [m EXCEPT !.timer = t.timer, !.ppu = p.ppu]
            IN [mmu |-> IF interrupts # 0 THEN [m1 EXCEPT !.if_ = interrupts] ELSE m1,
                irq |-> interrupts,
                frame_ready |-> p.frame_ready]
    IN Merge(TimerTick(m.timer, ToTcycles(c)), PpuTick(m.ppu, ToTcycles(c)))

\* MMU::tick; irq is the byte merged into IF
MmuTick(m, c) ==
    LET Merge(t, p) ==
            LET interrupts == Or8(TimerIrqBits(t.overflowed), p.interrupts)
                m1 == [m EXCEPT !.timer = t.timer, !.ppu = p.ppu]
            IN [mmu |-> IF interrupts # 0 THEN RequestInterrupt(m1, interrupts) ELSE m1,
                irq |-> interrupts,
                frame_ready |-> p.frame_ready]
    IN CHOOSE r \in {Merge(t, p) : t \in {TimerTick(m.timer, ToTcycles(c))},
                                   p \in {PpuTick(m.ppu, ToTcycles(c))}} : TRUE

-----------------------------------------------------------------------------
(* Processor: src/boy-core/src/cpu/cpu.rs, src/core/src/cpu/instructions.rs *)

\* CPU::init
CpuInit ==
    [r |-> [SetHl(SetDe(SetBc(SetAf(RegistersDefault, 432), 19), 216), 333)
              EXCEPT !.sp = 65534, !.pc = 256],
     ime |-> FALSE, ime_delay |-> 0, halted |-> FALSE, stopped |-> FALSE]

\* CPU::pc_inc
PcInc(c, val) == [c EXCEPT !.r.pc = Wrap16(@ + val)]

\* CPU::push
Push(c, m, val) ==
    LET sp == Wrap16(c.r.sp + 65536 - 2)
    IN [cpu |-> [c EXCEPT !.r.sp = sp], mmu |-> Ww(m, sp, val)]

\* CPU::pop
Pop(c, m) == [cpu |-> [c EXCEPT !.r.sp = Wrap16(@ + 2)], val |-> Rw(m, c.r.sp)]

\* call
Call(c, m, addr) ==
    LET Jump(p) == [cpu |-> [p.cpu EXCEPT !.r.pc = addr], mmu |-> p.mmu]
    IN Jump(Push(c, m, c.r.pc))

\* CPU::set_ime_pending
SetImePending(c, val) == [c EXCEPT !.ime_delay = IF val THEN 2 ELSE 0]

\* add8
Add8(r, x, y, carry) ==
    LET carry_val == IF carry THEN 1 ELSE 0
        sum == x + y + carry_val
        res == Wrap8(sum)
    IN [r |-> SetFlags(r, res = 0, FALSE, (x % 16) + (y % 16) + carry_val > 15, sum > 255),
        res |-> res]

\* sub8 taking the half borrow from the whole bytes
Sub8HalfFromBytes(r, x, y, carry) ==
    LET carry_val == IF carry THEN 1 ELSE 0
        res == Wrap8(x + 512 - y - carry_val)
    IN [r |-> SetFlags(r, res = 0, TRUE, x < y + carry_val, x < y + carry_val),
        res |-> res]

\* sub8
Sub8(r, x, y, carry) ==
    LET carry_val == IF carry THEN 1 ELSE 0
        res == Wrap8(x + 512 - y - carry_val)
    IN [r |-> SetFlags(r, res = 0, TRUE, (x % 16) < (y % 16) + carry_val, x < y + carry_val),
        res |-> res]

\* Registers::z, n, h, c
FlagZ(r) == And8(r.f, Z_BIT) # 0
FlagN(r) == And8(r.f, N_BIT) # 0
FlagH(r) == And8(r.f, H_BIT) # 0
FlagC(r) == And8(r.f, C_BIT) # 0

Done(c, m, n) == [cpu |-> c, mmu |-> m, cycles |-> n]

\* op_nop (0x00)
OpNop(c, m) == Done(c, m, 1)

\* op_stop (0x10): consumes the padding byte
OpStop(c, m) == Done([PcInc(c, 1) EXCEPT !.stopped = TRUE], m, 1)

\* op_halt (0x76)
OpHalt(c, m) == Done([c EXCEPT !.halted = TRUE], m, 1)

\* op_ei (0xFB)
OpEi(c, m) == Done(SetImePending(c, TRUE), m, 1)

\* op_di without set_ime_pending(false): the EI countdown keeps running
OpDiKeepsCountdown(c, m) == Done([c EXCEPT !.ime = FALSE], m, 1)

\* op_di (0xF3)
OpDi(c, m) == Done(SetImePending([c EXCEPT !.ime = FALSE], FALSE), m, 1)

\* op_reti (0xD9)
OpReti(c, m) ==
    LET Return(p) == Done([p.cpu EXCEPT !.r.pc = p.val, !.ime = TRUE], m, 4)
    IN Return(Pop(c, m))

\* op_pop_af (0xF1)
OpPopAf(c, m) ==
    LET Load(p) == Done([p.cpu EXCEPT !.r = SetAf(@, p.val)], m, 3)
    IN Load(Pop(c, m))

\* op_push_af (0xF5)
OpPushAf(c, m) ==
    LET Pushed(p) == Done(p.cpu, p.mmu, 4)
    IN Pushed(Push(c, m, RegAf(c.r)))

\* op_push_bc (0xC5)
OpPushBc(c, m) ==
    LET Pushed(p) == Done(p.cpu, p.mmu, 4)
    IN Pushed(Push(c, m, RegBc(c.r)))

\* op_push_de (0xD5)
OpPushDe(c, m) ==
    LET Pushed(p) == Done(p.cpu, p.mmu, 4)
    IN Pushed(Push(c, m, RegDe(c.r)))

\* op_push_hl (0xE5)
OpPushHl(c, m) ==
    LET Pushed(p) == Done(p.cpu, p.mmu, 4)
    IN Pushed(Push(c, m, RegHl(c.r)))

\* op_pop_bc (0xC1)
OpPopBc(c, m) ==
    LET Load(p) == Done([p.cpu EXCEPT !.r = SetBc(@, p.val)], m, 3)
    IN Load(Pop(c, m))

\* op_pop_de (0xD1)
OpPopDe(c, m) ==
    LET Load(p) == Done([p.cpu EXCEPT !.r = SetDe(@, p.val)], m, 3)
    IN Load(Pop(c, m))

\* op_pop_hl (0xE1)
OpPopHl(c, m) ==
    LET Load(p) == Done([p.cpu EXCEPT !.r = SetHl(@, p.val)], m, 3)
    IN Load(Pop(c, m))

\* op_ld_sp_d16 (0x31)
OpLdSpD16(c, m, d16) == Done([PcInc(c, 2) EXCEPT !.r.sp = d16], m, 3)

\* op_ld_bc_d16 (0x01)
OpLdBcD16(c, m, d16) == Done([PcInc(c, 2) EXCEPT !.r = SetBc(@, d16)], m, 3)

\* op_ld_a_d8 (0x3E)
OpLdAD8(c, m, d8) == Done([PcInc(c, 1) EXCEPT !.r.a = d8], m, 2)

\* op_add_a_d8 (0xC6)
OpAddAD8(c, m, d8) ==
    LET Store(s) == Done([PcInc(c, 1) EXCEPT !.r = [s.r EXCEPT !.a = s.res]], m, 2)
    IN Store(Add8(c.r, c.r.a, d8, FALSE))

\* op_daa that leaves the carry as it found it
OpDaaKeepsCarry(c, m) ==
    LET a == c.r.a
        adjust == IF FlagN(c.r)
                  THEN (IF FlagH(c.r) THEN 6 ELSE 0) + (IF FlagC(c.r) THEN 96 ELSE 0)
                  ELSE (IF FlagH(c.r) \/ (a % 16) > 9 THEN 6 ELSE 0)
                       + (IF FlagC(c.r) \/ a > 153 THEN 96 ELSE 0)
        res == IF FlagN(c.r) THEN Wrap8(a + 256 - adjust) ELSE Wrap8(a + adjust)
    IN Done([c EXCEPT !.r = SetC(SetH(SetZ([@ EXCEPT !.a = res], res = 0), FALSE), FlagC(c.r))],
            m, 1)

\* op_daa (0x27)
OpDaa(c, m) ==
    LET a == c.r.a
        adjust == IF FlagN(c.r)
                  THEN (IF FlagH(c.r) THEN 6 ELSE 0) + (IF FlagC(c.r) THEN 96 ELSE 0)
                  ELSE (IF FlagH(c.r) \/ (a % 16) > 9 THEN 6 ELSE 0)
                       + (IF FlagC(c.r) \/ a > 153 THEN 96 ELSE 0)
        carry == FlagC(c.r) \/ (~FlagN(c.r) /\ a > 153)
        res == IF FlagN(c.r) THEN Wrap8(a + 256 - adjust) ELSE Wrap8(a + adjust)
    IN Done([c EXCEPT !.r = SetC(SetH(SetZ([@ EXCEPT !.a = res], res = 0), FALSE), carry)],
            m, 1)

\* op_scf (0x37)
OpScf(c, m) == Done([c EXCEPT !.r = SetC(SetH(SetN(@, FALSE), FALSE), TRUE)], m, 1)

\* op_ldh_a8_a (0xE0)
OpLdhA8A(c, m, a8) == Done(PcInc(c, 1), Wb(m, 65280 + a8, c.r.a), 3)

\* OP_TABLE: the handler of the fetched opcode, with the operand bytes that
\* follow it in the instruction stream
Execute(c, m, ins) ==
    CASE ins.op = "op_nop"       -> OpNop(c, m)
      [] ins.op = "op_stop"      -> OpStop(c, m)
      [] ins.op = "op_halt"      -> OpHalt(c, m)
      [] ins.op = "op_ei"        -> OpEi(c, m)
      [] ins.op = "op_di"        -> OpDi(c, m)
      [] ins.op = "op_reti"      -> OpReti(c, m)
      [] ins.op = "op_pop_af"    -> OpPopAf(c, m)
      [] ins.op = "op_push_af"   -> OpPushAf(c, m)
      [] ins.op = "op_push_bc"   -> OpPushBc(c, m)
      [] ins.op = "op_push_de"   -> OpPushDe(c, m)
      [] ins.op = "op_push_hl"   -> OpPushHl(c, m)
      [] ins.op = "op_pop_bc"    -> OpPopBc(c, m)
      [] ins.op = "op_pop_de"    -> OpPopDe(c, m)
      [] ins.op = "op_pop_hl"    -> OpPopHl(c, m)
      [] ins.op = "op_ld_sp_d16" -> OpLdSpD16(c, m, ins.imm)
      [] ins.op = "op_ld_bc_d16" -> OpLdBcD16(c, m, ins.imm)
      [] ins.op = "op_ld_a_d8"   -> OpLdAD8(c, m, ins.imm)
      [] ins.op = "op_add_a_d8"  -> OpAddAD8(c, m, ins.imm)
      [] ins.op = "op_scf"       -> OpScf(c, m)
      [] ins.op = "op_ldh_a8_a"  -> OpLdhA8A(c, m, ins.imm)

\* OP_TABLE: the handler of each primary opcode, entry 1 for opcode 0x00;
\* call_0xcb_as_op is the closure at 0xCB
OP_TABLE ==
    <<"op_nop", "op_ld_bc_d16", "op_ld_bc_a", "op_inc_bc", "op_inc_b", "op_dec_b",
      "op_ld_b_d8", "op_rlca", "op_ld_a16_sp", "op_add_hl_bc", "op_ld_a_bc", "op_dec_bc",
      "op_inc_c", "op_dec_c", "op_ld_c_d8", "op_rrca", "op_stop", "op_ld_de_d16", "op_ld_de_a",
      "op_inc_de", "op_inc_d", "op_dec_d", "op_ld_d_d8", "op_rla", "op_jr", "op_add_hl_de",
      "op_ld_a_de", "op_dec_de", "op_inc_e", "op_dec_e", "op_ld_e_d8", "op_rra", "op_jr_nz",
      "op_ld_hl_d16", "op_ld_hli_a", "op_inc_hl", "op_inc_h", "op_dec_h", "op_ld_h_d8",
      "op_daa", "op_jr_z", "op_add_hl_hl", "op_ld_a_hli", "op_dec_hl", "op_inc_l", "op_dec_l",
      "op_ld_l_d8", "op_cpl", "op_jr_nc", "op_ld_sp_d16", "op_ld_hld_a", "op_inc_sp",
      "op_inc_hl_ptr", "op_dec_hl_ptr", "op_ld_hl_d8", "op_scf", "op_jr_c", "op_add_hl_sp",
      "op_ld_a_hld", "op_dec_sp", "op_inc_a", "op_dec_a", "op_ld_a_d8", "op_ccf", "op_ld_b_b",
      "op_ld_b_c", "op_ld_b_d", "op_ld_b_e", "op_ld_b_h", "op_ld_b_l", "op_ld_b_hl",
      "op_ld_b_a", "op_ld_c_b", "op_ld_c_c", "op_ld_c_d", "op_ld_c_e", "op_ld_c_h",
      "op_ld_c_l", "op_ld_c_hl", "op_ld_c_a", "op_ld_d_b", "op_ld_d_c", "op_ld_d_d",
      "op_ld_d_e", "op_ld_d_h", "op_ld_d_l", "op_ld_d_hl", "op_ld_d_a", "op_ld_e_b",
      "op_ld_e_c", "op_ld_e_d", "op_ld_e_e", "op_ld_e_h", "op_ld_e_l", "op_ld_e_hl",
      "op_ld_e_a", "op_ld_h_b", "op_ld_h_c", "op_ld_h_d", "op_ld_h_e", "op_ld_h_h",
      "op_ld_h_l", "op_ld_h_hl", "op_ld_h_a", "op_ld_l_b", "op_ld_l_c", "op_ld_l_d",
      "op_ld_l_e", "op_ld_l_h", "op_ld_l_l", "op_ld_l_hl", "op_ld_l_a", "op_ld_hl_b",
      "op_ld_hl_c", "op_ld_hl_d", "op_ld_hl_e", "op_ld_hl_h", "op_ld_hl_l", "op_halt",
      "op_ld_hl_a", "op_ld_a_b", "op_ld_a_c", "op_ld_a_d", "op_ld_a_e", "op_ld_a_h",
      "op_ld_a_l", "op_ld_a_hl", "op_ld_a_a", "op_add_a_b", "op_add_a_c", "op_add_a_d",
      "op_add_a_e", "op_add_a_h", "op_add_a_l", "op_add_a_hl", "op_add_a_a", "op_adc_a_b",
      "op_adc_a_c", "op_adc_a_d", "op_adc_a_e", "op_adc_a_h", "op_adc_a_l", "op_adc_a_hl",
      "op_adc_a_a", "op_sub_b", "op_sub_c", "op_sub_d", "op_sub_e", "op_sub_h", "op_sub_l",
      "op_sub_hl", "op_sub_a", "op_sbc_a_b", "op_sbc_a_c", "op_sbc_a_d", "op_sbc_a_e",
      "op_sbc_a_h", "op_sbc_a_l", "op_sbc_a_hl", "op_sbc_a_a", "op_and_b", "op_and_c",
      "op_and_d", "op_and_e", "op_and_h", "op_and_l", "op_and_hl", "op_and_a", "op_xor_b",
      "op_xor_c", "op_xor_d", "op_xor_e", "op_xor_h", "op_xor_l", "op_xor_hl", "op_xor_a",
      "op_or_b", "op_or_c", "op_or_d", "op_or_e", "op_or_h", "op_or_l", "op_or_hl", "op_or_a",
      "op_cp_b", "op_cp_c", "op_cp_d", "op_cp_e", "op_cp_h", "op_cp_l", "op_cp_hl", "op_cp_a",
      "op_ret_nz", "op_pop_bc", "op_jp_nz", "op_jp_a16", "op_call_nz", "op_push_bc",
      "op_add_a_d8", "op_rst_00", "op_ret_z", "op_ret", "op_jp_z", "call_0xcb_as_op",
      "op_call_z", "op_call_a16", "op_adc_a_d8", "op_rst_08", "op_ret_nc", "op_pop_de",
      "op_jp_nc", "op_xxx", "op_call_nc", "op_push_de", "op_sub_d8", "op_rst_10", "op_ret_c",
      "op_reti", "op_jp_c", "op_xxx", "op_call_c", "op_xxx", "op_sbc_a_d8", "op_rst_18",
      "op_ldh_a8_a", "op_pop_hl", "op_ld_ff00_c_a", "op_xxx", "op_xxx", "op_push_hl",
      "op_and_d8", "op_rst_20", "op_add_sp_r8", "op_jp_hl", "op_ld_a16_a", "op_xxx", "op_xxx",
      "op_xxx", "op_xor_d8", "op_rst_28", "op_ldh_a_a8", "op_pop_af", "op_ld_a_ff00_c",
      "op_di", "op_xxx", "op_push_af", "op_or_d8", "op_rst_30", "op_ld_hl_sp_r8",
      "op_ld_sp_hl", "op_ld_a_a16", "op_ei", "op_xxx", "op_xxx", "op_cp_d8", "op_rst_38">>

\* CB_TABLE: the handler of each opcode after the prefix 0xCB
CB_TABLE ==
    <<"cb_rlc_b", "cb_rlc_c", "cb_rlc_d", "cb_rlc_e", "cb_rlc_h", "cb_rlc_l", "cb_rlc_hl",
      "cb_rlc_a", "cb_rrc_b", "cb_rrc_c", "cb_rrc_d", "cb_rrc_e", "cb_rrc_h", "cb_rrc_l",
      "cb_rrc_hl", "cb_rrc_a", "cb_rl_b", "cb_rl_c", "cb_rl_d", "cb_rl_e", "cb_rl_h",
      "cb_rl_l", "cb_rl_hl", "cb_rl_a", "cb_rr_b", "cb_rr_c", "cb_rr_d", "cb_rr_e", "cb_rr_h",
      "cb_rr_l", "cb_rr_hl", "cb_rr_a", "cb_sla_b", "cb_sla_c", "cb_sla_d", "cb_sla_e",
      "cb_sla_h", "cb_sla_l", "cb_sla_hl", "cb_sla_a", "cb_sra_b", "cb_sra_c", "cb_sra_d",
      "cb_sra_e", "cb_sra_h", "cb_sra_l", "cb_sra_hl", "cb_sra_a", "cb_swap_b", "cb_swap_c",
      "cb_swap_d", "cb_swap_e", "cb_swap_h", "cb_swap_l", "cb_swap_hl", "cb_swap_a",
      "cb_srl_b", "cb_srl_c", "cb_srl_d", "cb_srl_e", "cb_srl_h", "cb_srl_l", "cb_srl_hl",
      "cb_srl_a", "cb_bit_0_b", "cb_bit_0_c", "cb_bit_0_d", "cb_bit_0_e", "cb_bit_0_h",
      "cb_bit_0_l", "cb_bit_0_hl", "cb_bit_0_a", "cb_bit_1_b", "cb_bit_1_c", "cb_bit_1_d",
      "cb_bit_1_e", "cb_bit_1_h", "cb_bit_1_l", "cb_bit_1_hl", "cb_bit_1_a", "cb_bit_2_b",
      "cb_bit_2_c", "cb_bit_2_d", "cb_bit_2_e", "cb_bit_2_h", "cb_bit_2_l", "cb_bit_2_hl",
      "cb_bit_2_a", "cb_bit_3_b", "cb_bit_3_c", "cb_bit_3_d", "cb_bit_3_e", "cb_bit_3_h",
      "cb_bit_3_l", "cb_bit_3_hl", "cb_bit_3_a", "cb_bit_4_b", "cb_bit_4_c", "cb_bit_4_d",
      "cb_bit_4_e", "cb_bit_4_h", "cb_bit_4_l", "cb_bit_4_hl", "cb_bit_4_a", "cb_bit_5_b",
      "cb_bit_5_c", "cb_bit_5_d", "cb_bit_5_e", "cb_bit_5_h", "cb_bit_5_l", "cb_bit_5_hl",
      "cb_bit_5_a", "cb_bit_6_b", "cb_bit_6_c", "cb_bit_6_d", "cb_bit_6_e", "cb_bit_6_h",
      "cb_bit_6_l", "cb_bit_6_hl", "cb_bit_6_a", "cb_bit_7_b", "cb_bit_7_c", "cb_bit_7_d",
      "cb_bit_7_e", "cb_bit_7_h", "cb_bit_7_l", "cb_bit_7_hl", "cb_bit_7_a", "cb_res_0_b",
      "cb_res_0_c", "cb_res_0_d", "cb_res_0_e", "cb_res_0_h", "cb_res_0_l", "cb_res_0_hl",
      "cb_res_0_a", "cb_res_1_b", "cb_res_1_c", "cb_res_1_d", "cb_res_1_e", "cb_res_1_h",
      "cb_res_1_l", "cb_res_1_hl", "cb_res_1_a", "cb_res_2_b", "cb_res_2_c", "cb_res_2_d",
      "cb_res_2_e", "cb_res_2_h", "cb_res_2_l", "cb_res_2_hl", "cb_res_2_a", "cb_res_3_b",
      "cb_res_3_c", "cb_res_3_d", "cb_res_3_e", "cb_res_3_h", "cb_res_3_l", "cb_res_3_hl",
      "cb_res_3_a", "cb_res_4_b", "cb_res_4_c", "cb_res_4_d", "cb_res_4_e", "cb_res_4_h",
      "cb_res_4_l", "cb_res_4_hl", "cb_res_4_a", "cb_res_5_b", "cb_res_5_c", "cb_res_5_d",
      "cb_res_5_e", "cb_res_5_h", "cb_res_5_l", "cb_res_5_hl", "cb_res_5_a", "cb_res_6_b",
      "cb_res_6_c", "cb_res_6_d", "cb_res_6_e", "cb_res_6_h", "cb_res_6_l", "cb_res_6_hl",
      "cb_res_6_a", "cb_res_7_b", "cb_res_7_c", "cb_res_7_d", "cb_res_7_e", "cb_res_7_h",
      "cb_res_7_l", "cb_res_7_hl", "cb_res_7_a", "cb_set_0_b", "cb_set_0_c", "cb_set_0_d",
      "cb_set_0_e", "cb_set_0_h", "cb_set_0_l", "cb_set_0_hl", "cb_set_0_a", "cb_set_1_b",
      "cb_set_1_c", "cb_set_1_d", "cb_set_1_e", "cb_set_1_h", "cb_set_1_l", "cb_set_1_hl",
      "cb_set_1_a", "cb_set_2_b", "cb_set_2_c", "cb_set_2_d", "cb_set_2_e", "cb_set_2_h",
      "cb_set_2_l", "cb_set_2_hl", "cb_set_2_a", "cb_set_3_b", "cb_set_3_c", "cb_set_3_d",
      "cb_set_3_e", "cb_set_3_h", "cb_set_3_l", "cb_set_3_hl", "cb_set_3_a", "cb_set_4_b",
      "cb_set_4_c", "cb_set_4_d", "cb_set_4_e", "cb_set_4_h", "cb_set_4_l", "cb_set_4_hl",
      "cb_set_4_a", "cb_set_5_b", "cb_set_5_c", "cb_set_5_d", "cb_set_5_e", "cb_set_5_h",
      "cb_set_5_l", "cb_set_5_hl", "cb_set_5_a", "cb_set_6_b", "cb_set_6_c", "cb_set_6_d",
      "cb_set_6_e", "cb_set_6_h", "cb_set_6_l", "cb_set_6_hl", "cb_set_6_a", "cb_set_7_b",
      "cb_set_7_c", "cb_set_7_d", "cb_set_7_e", "cb_set_7_h", "cb_set_7_l", "cb_set_7_hl",
      "cb_set_7_a">>

\* the machine cycles a handler returns, by the flags it finds where its
\* return depends on one; 0 for the two that panic and return nothing
HandlerCycles(handler, r) ==
    CASE handler \in {"op_jr_c"} ->
             IF TestBit(r.f, 4) THEN 3 ELSE 2
      [] handler \in {"op_jp_c"} ->
             IF TestBit(r.f, 4) THEN 4 ELSE 3
      [] handler \in {"op_ret_c"} ->
             IF TestBit(r.f, 4) THEN 5 ELSE 2
      [] handler \in {"op_call_c"} ->
             IF TestBit(r.f, 4) THEN 6 ELSE 3
      [] handler \in {"op_jr_z"} ->
             IF TestBit(r.f, 7) THEN 3 ELSE 2
      [] handler \in {"op_jp_z"} ->
             IF TestBit(r.f, 7) THEN 4 ELSE 3
      [] handler \in {"op_ret_z"} ->
             IF TestBit(r.f, 7) THEN 5 ELSE 2
      [] handler \in {"op_call_z"} ->
             IF TestBit(r.f, 7) THEN 6 ELSE 3
      [] handler \in {"op_jr_nc"} ->
             IF ~TestBit(r.f, 4) THEN 3 ELSE 2
      [] handler \in {"op_jp_nc"} ->
             IF ~TestBit(r.f, 4) THEN 4 ELSE 3
      [] handler \in {"op_ret_nc"} ->
             IF ~TestBit(r.f, 4) THEN 5 ELSE 2
      [] handler \in {"op_call_nc"} ->
             IF ~TestBit(r.f, 4) THEN 6 ELSE 3
      [] handler \in {"op_jr_nz"} ->
             IF ~TestBit(r.f, 7) THEN 3 ELSE 2
      [] handler \in {"op_jp_nz"} ->
             IF ~TestBit(r.f, 7) THEN 4 ELSE 3
      [] handler \in {"op_ret_nz"} ->
             IF ~TestBit(r.f, 7) THEN 5 ELSE 2
      [] handler \in {"op_call_nz"} ->
             IF ~TestBit(r.f, 7) THEN 6 ELSE 3
      [] handler \in
             {"op_adc_a_a", "op_adc_a_b", "op_adc_a_c", "op_adc_a_d", "op_adc_a_e",
              "op_adc_a_h", "op_adc_a_l", "op_add_a_a", "op_add_a_b", "op_add_a_c",
              "op_add_a_d", "op_add_a_e", "op_add_a_h", "op_add_a_l", "op_and_a", "op_and_b",
              "op_and_c", "op_and_d", "op_and_e", "op_and_h", "op_and_l", "op_ccf", "op_cp_a",
              "op_cp_b", "op_cp_c", "op_cp_d", "op_cp_e", "op_cp_h", "op_cp_l", "op_cpl",
              "op_daa", "op_dec_a", "op_dec_b", "op_dec_c", "op_dec_d", "op_dec_e", "op_dec_h",
              "op_dec_l", "op_di", "op_ei", "op_halt", "op_inc_a", "op_inc_b", "op_inc_c",
              "op_inc_d", "op_inc_e", "op_inc_h", "op_inc_l", "op_jp_hl", "op_ld_a_a",
              "op_ld_a_b", "op_ld_a_c", "op_ld_a_d", "op_ld_a_e", "op_ld_a_h", "op_ld_a_l",
              "op_ld_b_a", "op_ld_b_b", "op_ld_b_c", "op_ld_b_d", "op_ld_b_e", "op_ld_b_h",
              "op_ld_b_l", "op_ld_c_a", "op_ld_c_b", "op_ld_c_c", "op_ld_c_d", "op_ld_c_e",
              "op_ld_c_h", "op_ld_c_l", "op_ld_d_a", "op_ld_d_b", "op_ld_d_c", "op_ld_d_d",
              "op_ld_d_e", "op_ld_d_h", "op_ld_d_l", "op_ld_e_a", "op_ld_e_b", "op_ld_e_c",
              "op_ld_e_d", "op_ld_e_e", "op_ld_e_h", "op_ld_e_l", "op_ld_h_a", "op_ld_h_b",
              "op_ld_h_c", "op_ld_h_d", "op_ld_h_e", "op_ld_h_h", "op_ld_h_l", "op_ld_l_a",
              "op_ld_l_b", "op_ld_l_c", "op_ld_l_d", "op_ld_l_e", "op_ld_l_h", "op_ld_l_l",
              "op_nop", "op_or_a", "op_or_b", "op_or_c", "op_or_d", "op_or_e", "op_or_h",
              "op_or_l", "op_rla", "op_rlca", "op_rra", "op_rrca", "op_sbc_a_a", "op_sbc_a_b",
              "op_sbc_a_c", "op_sbc_a_d", "op_sbc_a_e", "op_sbc_a_h", "op_sbc_a_l", "op_scf",
              "op_stop", "op_sub_a", "op_sub_b", "op_sub_c", "op_sub_d", "op_sub_e",
              "op_sub_h", "op_sub_l", "op_xor_a", "op_xor_b", "op_xor_c", "op_xor_d",
              "op_xor_e", "op_xor_h", "op_xor_l"} -> 1
      [] handler \in
             {"cb_bit_0_a", "cb_bit_0_b", "cb_bit_0_c", "cb_bit_0_d", "cb_bit_0_e",
              "cb_bit_0_h", "cb_bit_0_l", "cb_bit_1_a", "cb_bit_1_b", "cb_bit_1_c",
              "cb_bit_1_d", "cb_bit_1_e", "cb_bit_1_h", "cb_bit_1_l", "cb_bit_2_a",
              "cb_bit_2_b", "cb_bit_2_c", "cb_bit_2_d", "cb_bit_2_e", "cb_bit_2_h",
              "cb_bit_2_l", "cb_bit_3_a", "cb_bit_3_b", "cb_bit_3_c", "cb_bit_3_d",
              "cb_bit_3_e", "cb_bit_3_h", "cb_bit_3_l", "cb_bit_4_a", "cb_bit_4_b",
              "cb_bit_4_c", "cb_bit_4_d", "cb_bit_4_e", "cb_bit_4_h", "cb_bit_4_l",
              "cb_bit_5_a", "cb_bit_5_b", "cb_bit_5_c", "cb_bit_5_d", "cb_bit_5_e",
              "cb_bit_5_h", "cb_bit_5_l", "cb_bit_6_a", "cb_bit_6_b", "cb_bit_6_c",
              "cb_bit_6_d", "cb_bit_6_e", "cb_bit_6_h", "cb_bit_6_l", "cb_bit_7_a",
              "cb_bit_7_b", "cb_bit_7_c", "cb_bit_7_d", "cb_bit_7_e", "cb_bit_7_h",
              "cb_bit_7_l", "cb_res_0_a", "cb_res_0_b", "cb_res_0_c", "cb_res_0_d",
              "cb_res_0_e", "cb_res_0_h", "cb_res_0_l", "cb_res_1_a", "cb_res_1_b",
              "cb_res_1_c", "cb_res_1_d", "cb_res_1_e", "cb_res_1_h", "cb_res_1_l",
              "cb_res_2_a", "cb_res_2_b", "cb_res_2_c", "cb_res_2_d", "cb_res_2_e",
              "cb_res_2_h", "cb_res_2_l", "cb_res_3_a", "cb_res_3_b", "cb_res_3_c",
              "cb_res_3_d", "cb_res_3_e", "cb_res_3_h", "cb_res_3_l", "cb_res_4_a",
              "cb_res_4_b", "cb_res_4_c", "cb_res_4_d", "cb_res_4_e", "cb_res_4_h",
              "cb_res_4_l", "cb_res_5_a", "cb_res_5_b", "cb_res_5_c", "cb_res_5_d",
              "cb_res_5_e", "cb_res_5_h", "cb_res_5_l", "cb_res_6_a", "cb_res_6_b",
              "cb_res_6_c", "cb_res_6_d", "cb_res_6_e", "cb_res_6_h", "cb_res_6_l",
              "cb_res_7_a", "cb_res_7_b", "cb_res_7_c", "cb_res_7_d", "cb_res_7_e",
              "cb_res_7_h", "cb_res_7_l", "cb_rl_a", "cb_rl_b", "cb_rl_c", "cb_rl_d",
              "cb_rl_e", "cb_rl_h", "cb_rl_l", "cb_rlc_a", "cb_rlc_b", "cb_rlc_c", "cb_rlc_d",
              "cb_rlc_e", "cb_rlc_h", "cb_rlc_l", "cb_rr_a", "cb_rr_b", "cb_rr_c", "cb_rr_d",
              "cb_rr_e", "cb_rr_h", "cb_rr_l", "cb_rrc_a", "cb_rrc_b", "cb_rrc_c", "cb_rrc_d",
              "cb_rrc_e", "cb_rrc_h", "cb_rrc_l", "cb_set_0_a", "cb_set_0_b", "cb_set_0_c",
              "cb_set_0_d", "cb_set_0_e", "cb_set_0_h", "cb_set_0_l", "cb_set_1_a",
              "cb_set_1_b", "cb_set_1_c", "cb_set_1_d", "cb_set_1_e", "cb_set_1_h",
              "cb_set_1_l", "cb_set_2_a", "cb_set_2_b", "cb_set_2_c", "cb_set_2_d",
              "cb_set_2_e", "cb_set_2_h", "cb_set_2_l", "cb_set_3_a", "cb_set_3_b",
              "cb_set_3_c", "cb_set_3_d", "cb_set_3_e", "cb_set_3_h", "cb_set_3_l",
              "cb_set_4_a", "cb_set_4_b", "cb_set_4_c", "cb_set_4_d", "cb_set_4_e",
              "cb_set_4_h", "cb_set_4_l", "cb_set_5_a", "cb_set_5_b", "cb_set_5_c",
              "cb_set_5_d", "cb_set_5_e", "cb_set_5_h", "cb_set_5_l", "cb_set_6_a",
              "cb_set_6_b", "cb_set_6_c", "cb_set_6_d", "cb_set_6_e", "cb_set_6_h",
              "cb_set_6_l", "cb_set_7_a", "cb_set_7_b", "cb_set_7_c", "cb_set_7_d",
              "cb_set_7_e", "cb_set_7_h", "cb_set_7_l", "cb_sla_a", "cb_sla_b", "cb_sla_c",
              "cb_sla_d", "cb_sla_e", "cb_sla_h", "cb_sla_l", "cb_sra_a", "cb_sra_b",
              "cb_sra_c", "cb_sra_d", "cb_sra_e", "cb_sra_h", "cb_sra_l", "cb_srl_a",
              "cb_srl_b", "cb_srl_c", "cb_srl_d", "cb_srl_e", "cb_srl_h", "cb_srl_l",
              "cb_swap_a", "cb_swap_b", "cb_swap_c", "cb_swap_d", "cb_swap_e", "cb_swap_h",
              "cb_swap_l", "op_adc_a_d8", "op_adc_a_hl", "op_add_a_d8", "op_add_a_hl",
              "op_add_hl_bc", "op_add_hl_de", "op_add_hl_hl", "op_add_hl_sp", "op_and_d8",
              "op_and_hl", "op_cp_d8", "op_cp_hl", "op_dec_bc", "op_dec_de", "op_dec_hl",
              "op_dec_sp", "op_inc_bc", "op_inc_de", "op_inc_hl", "op_inc_sp", "op_ld_a_bc",
              "op_ld_a_d8", "op_ld_a_de", "op_ld_a_ff00_c", "op_ld_a_hl", "op_ld_a_hld",
              "op_ld_a_hli", "op_ld_b_d8", "op_ld_b_hl", "op_ld_bc_a", "op_ld_c_d8",
              "op_ld_c_hl", "op_ld_d_d8", "op_ld_d_hl", "op_ld_de_a", "op_ld_e_d8",
              "op_ld_e_hl", "op_ld_ff00_c_a", "op_ld_h_d8", "op_ld_h_hl", "op_ld_hl_a",
              "op_ld_hl_b", "op_ld_hl_c", "op_ld_hl_d", "op_ld_hl_e", "op_ld_hl_h",
              "op_ld_hl_l", "op_ld_hld_a", "op_ld_hli_a", "op_ld_l_d8", "op_ld_l_hl",
              "op_ld_sp_hl", "op_or_d8", "op_or_hl", "op_sbc_a_d8", "op_sbc_a_hl", "op_sub_d8",
              "op_sub_hl", "op_xor_d8", "op_xor_hl"} -> 2
      [] handler \in
             {"cb_bit_0_hl", "cb_bit_1_hl", "cb_bit_2_hl", "cb_bit_3_hl", "cb_bit_4_hl",
              "cb_bit_5_hl", "cb_bit_6_hl", "cb_bit_7_hl", "op_dec_hl_ptr", "op_inc_hl_ptr",
              "op_jr", "op_ld_bc_d16", "op_ld_de_d16", "op_ld_hl_d16", "op_ld_hl_d8",
              "op_ld_hl_sp_r8", "op_ld_sp_d16", "op_ldh_a8_a", "op_ldh_a_a8", "op_pop_af",
              "op_pop_bc", "op_pop_de", "op_pop_hl"} -> 3
      [] handler \in
             {"cb_res_0_hl", "cb_res_1_hl", "cb_res_2_hl", "cb_res_3_hl", "cb_res_4_hl",
              "cb_res_5_hl", "cb_res_6_hl", "cb_res_7_hl", "cb_rl_hl", "cb_rlc_hl", "cb_rr_hl",
              "cb_rrc_hl", "cb_set_0_hl", "cb_set_1_hl", "cb_set_2_hl", "cb_set_3_hl",
              "cb_set_4_hl", "cb_set_5_hl", "cb_set_6_hl", "cb_set_7_hl", "cb_sla_hl",
              "cb_sra_hl", "cb_srl_hl", "cb_swap_hl", "op_add_sp_r8", "op_jp_a16",
              "op_ld_a16_a", "op_ld_a_a16", "op_push_af", "op_push_bc", "op_push_de",
              "op_push_hl", "op_ret", "op_reti", "op_rst_00", "op_rst_08", "op_rst_10",
              "op_rst_18", "op_rst_20", "op_rst_28", "op_rst_30", "op_rst_38"} -> 4
      [] handler \in
             {"op_ld_a16_sp"} -> 5
      [] handler \in
             {"op_call_a16"} -> 6
      [] OTHER -> 0

\* op_xxx: the address its panic message prints as PC
IllegalOpcodePc(c) == Wrap16(c.r.pc - 1)

\* CPU::step looking the handler up without regard to the prefix
HandlerIgnoresPrefix(opcode, cb) == OP_TABLE[opcode + 1]

\* CPU::step: the handler of the opcode fetched, cb being the byte after 0xCB
Handler(opcode, cb) == IF opcode = 203 THEN CB_TABLE[cb + 1] ELSE OP_TABLE[opcode + 1]

\* CPU::step from the fetch of the opcode at PC to the handler's return value
\* or panic; the handler's operand fetches and what it does to registers and
\* memory are followed by Execute, not here
Dispatch(c, opcode, cb) ==
    LET Entered(fetched, handler) ==
            [cpu |-> fetched, op |-> handler, cycles |-> HandlerCycles(handler, fetched.r),
             fault |-> CASE handler = "op_xxx" -> "Illegal opcode"
                         [] handler = "call_0xcb_as_op" -> "Trying to call 0xCB as OP."
                         [] OTHER -> "none"]
    IN Entered(PcInc(c, IF opcode = 203 THEN 2 ELSE 1), Handler(opcode, cb))

\* the EI delay at the end of CPU::step
ImeDelayTick(c) ==
    IF c.ime_delay > 0
    THEN [c EXCEPT !.ime_delay = @ - 1, !.ime = IF c.ime_delay = 1 THEN TRUE ELSE @]
    ELSE c

\* CPU::service_interrupts
ServiceInterrupts(c, m, checks) ==
    LET Called(p) == [tag |-> "some", cpu |-> p.cpu, mmu |-> p.mmu]
        Service(sel) ==
            IF sel.tag # "some" THEN [tag |-> sel.tag, cpu |-> c, mmu |-> m]
            ELSE Called(Call([c EXCEPT !.ime = FALSE],
                             ClearInterrupt(m, InterruptBit(sel.irq)),
                             InterruptVector(sel.irq)))
    IN Service(HighestPriority(PendingInterrupts(m), checks))

StepResult(c, m, n, k, o, f) ==
    [cpu |-> c, mmu |-> m, cycles |-> n, kind |-> k, op |-> o, fault |-> f]

\* the instruction part of CPU::step: fetch, dispatch through the table, EI delay
StepInstruction(c, m, ins) ==
    LET Executed(e) ==
            StepResult(ImeDelayTick(e.cpu), e.mmu, e.cycles, "instr", ins.op, "none")
    IN Executed(Execute(PcInc(c, 1), m, ins))

\* the step of a processor that is awake, a pending interrupt taking a
\* stopped processor with IME set out of the wait
StepAwakeStopYields(c, m, ins, checks) ==
    IF c.stopped /\ ~(c.ime /\ PendingInterrupts(m) # 0) THEN StepResult(c, m, 1, "stop_wait", "none", "none")
    ELSE LET Serviced(s) ==
                 CASE s.tag = "panic" ->
                        StepResult(c, m, 0, "panic", "none", "shift overflow")
                   [] s.tag = "some" ->
                        StepResult(s.cpu, s.mmu, INTERRUPT_CYCLES, "dispatch", "none", "none")
                   [] s.tag = "none" -> StepInstruction(c, m, ins)
         IN Serviced(IF c.ime THEN ServiceInterrupts(c, m, checks)
                     ELSE [tag |-> "none", cpu |-> c, mmu |-> m])

\* the part of CPU::step after the HALT check
StepAwake(c, m, ins, checks) ==
    IF c.stopped THEN StepResult(c, m, 1, "stop_wait", "none", "none")
    ELSE LET Serviced(s) ==
                 CASE s.tag = "panic" ->
                        StepResult(c, m, 0, "panic", "none", "shift overflow")
                   [] s.tag = "some" ->
                        StepResult(s.cpu, s.mmu, INTERRUPT_CYCLES, "dispatch", "none", "none")
                   [] s.tag = "none" -> StepInstruction(c, m, ins)
         IN Serviced(IF c.ime THEN ServiceInterrupts(c, m, checks)
                     ELSE [tag |-> "none", cpu |-> c, mmu |-> m])

\* CPU::step leaving HALT only when IME is set
CpuStepWakesOnIme(c, m, ins, checks) ==
    IF c.halted /\ (PendingInterrupts(m) = 0 \/ ~c.ime)
    THEN StepResult(c, m, 1, "halt_wait", "none", "none")
    ELSE StepAwake([c EXCEPT !.halted = FALSE], m, ins, checks)

\* CPU::step whose waking step skips the interrupt check and fetches
CpuStepWakeFetches(c, m, ins, checks) ==
    IF c.halted /\ PendingInterrupts(m) = 0
    THEN StepResult(c, m, 1, "halt_wait", "none", "none")
    ELSE IF c.halted THEN StepInstruction([c EXCEPT !.halted = FALSE], m, ins)
    ELSE StepAwake(c, m, ins, checks)

\* CPU::step; ins is what the instruction stream holds at PC
CpuStep(c, m, ins, checks) ==
    IF c.halted /\ PendingInterrupts(m) = 0
    THEN StepResult(c, m, 1, "halt_wait", "none", "none")
    ELSE StepAwake([c EXCEPT !.halted = FALSE], m, ins, checks)

-----------------------------------------------------------------------------
(* The frame loop: src/core/src/gameboy.rs, GameBoy::run_frame *)

\* bound on the number of CPU::step calls explored
MaxSteps == 6

\* operand bytes of LD A,d8
D8 == {3, 8}

\* operand bytes of LDH (a8),A: IF and IE
A8 == {15, 255}

\* key states sampled at the start of a frame
KeySamples == {{}}

NoOperandOps == {"op_nop", "op_stop", "op_halt", "op_ei", "op_di", "op_reti"}

\* what the instruction stream may hold at PC
Instructions ==
    {[op |-> o, imm |-> 0] : o \in NoOperandOps}
    \cup {[op |-> "op_ld_a_d8", imm |-> v] : v \in D8}
    \cup {[op |-> "op_ldh_a8_a", imm |-> a] : a \in A8}

\* the programs explored: code runs from cartridge ROM and pops read the
\* stack in high RAM
InScope(c, ins) ==
    /\ InRom(c.r.pc) /\ InRom(c.r.pc + 2)
    /\ ins.op \in {"op_reti", "op_pop_af"} => c.r.sp \in 65408..65534

NoStep == [kind |-> "init", op |-> "none", ime |-> FALSE, halted |-> FALSE, pending |-> 0]

\* no write has reached the cartridge
NoneWritten == [enable |-> -1, low |-> -1, high |-> -1, mode |-> -1, latch |-> -1]

\* GameBoy::new around the bus m, f being what loading the cartridge ended in
PowerOn(m, f) ==
    /\ cpu = CpuInit
    /\ mmu = m
    /\ phase = "host"
    /\ cycles = 0
    /\ frame_ready = FALSE
    /\ fault = f
    /\ overflow_checks \in BOOLEAN
    /\ steps = 0
    /\ kind = "init"
    /\ op = "none"
    /\ irq = 0
    /\ pre = [ime |-> FALSE, halted |-> FALSE, pending |-> 0]
    /\ prev = NoStep
    /\ elapsed = 0
    /\ mark = [addr |-> 0, value |-> 0, at |-> 0, timer |-> TimerDefault]
    /\ written = NoneWritten

Init == PowerOn(MmuNew, "none")

\* run_frame is entered: the key states are sampled, then the loop starts
RunFrame ==
    /\ phase = "host"
    /\ \E key_states \in KeySamples : mmu' = HandleJoypad(mmu, key_states)
    /\ phase' = "step"
    /\ UNCHANGED <<cpu, cycles, frame_ready, fault, overflow_checks, steps, kind, op, irq,
                   pre, prev, elapsed, mark, written>>

\* let cycles = self.cpu.step(&mut self.mmu), the instruction stream holding
\* one of instrs at PC; at most bound calls are explored
StepOf(instrs, bound) ==
    /\ phase = "step"
    /\ fault = "none"
    /\ steps < bound
    /\ \E ins \in instrs :
        \E s \in {CpuStep(cpu, mmu, ins, overflow_checks)} :
           /\ s.kind = "instr" => InScope(cpu, ins)
           /\ cpu' = s.cpu
           /\ mmu' = s.mmu
           /\ cycles' = s.cycles
           /\ kind' = s.kind
           /\ op' = s.op
           /\ fault' = s.fault
           /\ phase' = IF s.fault = "none" THEN "tick" ELSE "step"
    /\ steps' = steps + 1
    /\ pre' = [ime |-> cpu.ime, halted |-> cpu.halted, pending |-> PendingInterrupts(mmu)]
    /\ prev' = [kind |-> kind, op |-> op, ime |-> pre.ime, halted |-> pre.halted,
                pending |-> pre.pending]
    /\ UNCHANGED <<frame_ready, overflow_checks, irq, elapsed, mark, written>>

Step == StepOf(Instructions, MaxSteps)

\* let frame_ready = self.mmu.tick(cycles); the loop ends when it is set
Tick ==
    /\ phase = "tick"
    /\ \E t \in {MmuTick(mmu, cycles)} :
          /\ mmu' = t.mmu
          /\ irq' = t.irq
          /\ frame_ready' = t.frame_ready
          /\ phase' = IF t.frame_ready THEN "host" ELSE "step"
    /\ elapsed' = elapsed + ToTcycles(cycles)
    /\ UNCHANGED <<cpu, cycles, fault, overflow_checks, steps, kind, op, pre, prev, mark, written>>

Next == RunFrame \/ Step \/ Tick

\* the emulator, in either build profile
Spec == Init /\ [][Next]_vars

\* GameBoy::new in a build without overflow checks (cargo's release profile)
InitRelease == Init /\ overflow_checks = FALSE

\* the emulator built without overflow checks
SpecRelease == InitRelease /\ [][Next]_vars

-----------------------------------------------------------------------------
(* The frame loop over programs that use the stack and the flags *)

\* bound on the number of CPU::step calls explored
MaxRegSteps == 4

\* operand words of LD BC,d16
D16 == {65535}

\* operand bytes of ADD A,d8
AddD8 == {15, 255}

RegInstructions ==
    {[op |-> o, imm |-> 0] :
        o \in {"op_nop", "op_scf", "op_push_af", "op_push_bc", "op_pop_af"}}
    \cup {[op |-> "op_ld_bc_d16", imm |-> v] : v \in D16}
    \cup {[op |-> "op_add_a_d8", imm |-> v] : v \in AddD8}

StepRegs == StepOf(RegInstructions, MaxRegSteps)

NextRegs == RunFrame \/ StepRegs \/ Tick

SpecRegs == Init /\ [][NextRegs]_vars

-----------------------------------------------------------------------------
(* The frame loop over programs that move the stack and push and pop pairs *)

\* bound on the number of CPU::step calls explored
MaxStackSteps == 3

\* operand words of LD SP,d16: the stack at the top of work RAM, just above
\* cartridge RAM, and just above the unimplemented registers below high RAM
StackTops == {57344, 49153, 65409}

PushOps == {"op_push_bc", "op_push_de", "op_push_hl", "op_push_af"}

PopOps == {"op_pop_bc", "op_pop_de", "op_pop_hl", "op_pop_af"}

StackInstructions ==
    {[op |-> o, imm |-> 0] : o \in PushOps \cup PopOps}
    \cup {[op |-> "op_ld_sp_d16", imm |-> v] : v \in StackTops}

StepStack == StepOf(StackInstructions, MaxStackSteps)

NextStack == RunFrame \/ StepStack \/ Tick

SpecStack == Init /\ [][NextStack]_vars

-----------------------------------------------------------------------------
(* The arithmetic helpers applied to every pair of bytes *)

\* the processor with a in A and in D, b in B and the carry-in in C, as loads
\* leave it; the helpers below take their operands from there
AluInit ==
    /\ \E a \in 0..255, b \in 0..255, carry \in {0, 1} :
          cpu = [CpuInit EXCEPT !.r.a = a, !.r.d = a, !.r.b = b, !.r.c = carry]
    /\ mmu = MmuNew
    /\ phase = "host"
    /\ cycles = 0
    /\ frame_ready = FALSE
    /\ fault = "none"
    /\ overflow_checks = FALSE
    /\ steps = 0
    /\ kind = "init"
    /\ op = "none"
    /\ irq = 0
    /\ pre = [ime |-> FALSE, halted |-> FALSE, pending |-> 0]
    /\ prev = NoStep
    /\ elapsed = 0
    /\ mark = [addr |-> 0, value |-> 0, at |-> 0, timer |-> TimerDefault]
    /\ written = NoneWritten

\* the helper's result goes to A, as add_a, adc_a, sub_a and sbc_a store it;
\* op keeps what was applied before
AluApply(s, k) ==
    /\ cpu' = [cpu EXCEPT !.r = [s.r EXCEPT !.a = s.res]]
    /\ kind' = k
    /\ op' = kind
    /\ UNCHANGED <<mmu, phase, cycles, frame_ready, fault, overflow_checks, steps, irq,
                   pre, prev, elapsed, mark, written>>

\* add8(cpu, a, b, carry)
AluAdd == kind = "init" /\ AluApply(Add8(cpu.r, cpu.r.a, cpu.r.b, cpu.r.c = 1), "add8")

\* sub8(cpu, a, b, carry), on the operands as loaded or on the sum add8 left
AluSub ==
    /\ kind \in {"init", "add8"}
    /\ AluApply(Sub8(cpu.r, cpu.r.a, cpu.r.b, cpu.r.c = 1), "sub8")

\* op_daa on what add8 or sub8 left
AluDaa ==
    /\ kind \in {"add8", "sub8"}
    /\ cpu' = OpDaa(cpu, mmu).cpu
    /\ kind' = "daa"
    /\ op' = kind
    /\ UNCHANGED <<mmu, phase, cycles, frame_ready, fault, overflow_checks, steps, irq,
                   pre, prev, elapsed, mark, written>>

SpecAlu == AluInit /\ [][AluAdd \/ AluSub \/ AluDaa]_vars

-----------------------------------------------------------------------------
(* The frame loop over programs that set up the timer and switch the LCD *)

\* bound on the number of CPU::step calls explored
MaxBusSteps == 5

\* operand bytes of LD A,d8: TIMA about to overflow; TAC enabled at 16 dots
\* per increment, which as LCDC has bit 7 clear
BusD8 == {255, 5}

\* operand bytes of LDH (a8),A: TIMA, TAC, LCDC
BusA8 == {5, 7, 64}

BusInstructions ==
    {[op |-> "op_nop", imm |-> 0]}
    \cup {[op |-> "op_ld_a_d8", imm |-> v] : v \in BusD8}
    \cup {[op |-> "op_ldh_a8_a", imm |-> a] : a \in BusA8}

StepBus == StepOf(BusInstructions, MaxBusSteps)

NextBus == RunFrame \/ StepBus \/ Tick

SpecBus == Init /\ [][NextBus]_vars

-----------------------------------------------------------------------------
(* The pixel generator on its own: PPU::tick with the cycle counts a step  *)
(* can return, between writes of its registers through the bus             *)

\* the largest cycle count handed to a tick
MaxCycles == 6

\* register writes explored: LCD off and on, the STAT selects, LYC
PpuWrites ==
    {[addr |-> LCDC_ADDR, value |-> v] : v \in {17, 145}}
    \cup {[addr |-> STAT_ADDR, value |-> v] : v \in {0, 120}}
    \cup {[addr |-> LYC_ADDR, value |-> v] : v \in {0, 144}}
    \cup {[addr |-> LY_ADDR, value |-> 7]}

\* self.ppu.tick(to_tcycles(cycles)) as MMU::tick calls it
PpuAdvance ==
    /\ \E c \in 1..MaxCycles :
        \E t \in {PpuTick(mmu.ppu, ToTcycles(c))} :
           /\ mmu' = [mmu EXCEPT !.ppu = t.ppu]
           /\ irq' = t.interrupts
           /\ frame_ready' = t.frame_ready
    /\ kind' = "ppu_tick"
    /\ UNCHANGED <<cpu, phase, cycles, fault, overflow_checks, steps, op, pre, prev,
                   elapsed, mark, written>>

\* MMU::wb of a pixel-generator register
PpuWrite ==
    /\ \E w \in PpuWrites : mmu' = Wb(mmu, w.addr, w.value)
    /\ kind' = "ppu_write"
    /\ UNCHANGED <<cpu, phase, cycles, frame_ready, fault, overflow_checks, steps, op, irq,
                   pre, prev, elapsed, mark, written>>

NextPpu == PpuAdvance \/ PpuWrite

SpecPpu == Init /\ [][NextPpu]_vars

-----------------------------------------------------------------------------
(* The frame loop over programs that write STAT and LYC *)

\* bound on the number of CPU::step calls explored
MaxStatSteps == 6

\* LD A,d8 with 0x00 or 0xC0 (bit 6 is STAT's LYC select); LDH (a8),A to STAT or LYC
StatInstructions ==
    {[op |-> "op_ld_a_d8", imm |-> v] : v \in {0, 192}}
    \cup {[op |-> "op_ldh_a8_a", imm |-> a] : a \in {65, 69}}

StepStat == StepOf(StatInstructions, MaxStatSteps)

SpecStat == Init /\ [][RunFrame \/ StepStat \/ Tick]_vars

-----------------------------------------------------------------------------
(* A byte written through the bus directly *)

\* self.wb(w.addr, w.value)
BusWrite(w) ==
    /\ \E m \in {Wb(mmu, w.addr, w.value)} :
          /\ mmu' = m
          /\ mark' = [addr |-> w.addr, value |-> w.value, at |-> elapsed, timer |-> m.timer]
    /\ kind' = "bus_write"
    /\ UNCHANGED <<cpu, phase, cycles, frame_ready, fault, overflow_checks, steps, op, irq,
                   pre, prev, elapsed, written>>

-----------------------------------------------------------------------------
(* The bus clocked from power-on with nothing written: MMU::tick with the  *)
(* cycle counts a step can return, over whole frames                       *)

\* frames explored
MaxFrames == 2

\* self.mmu.tick(cycles), while fewer than bound dots have elapsed
BusTickOf(bound) ==
    /\ elapsed < bound
    /\ \E c \in 1..MaxCycles :
        \E t \in {MmuTick(mmu, c)} :
           /\ mmu' = t.mmu
           /\ irq' = t.irq
           /\ frame_ready' = t.frame_ready
           /\ elapsed' = elapsed + ToTcycles(c)
    /\ kind' = "bus_tick"
    /\ UNCHANGED <<cpu, phase, cycles, fault, overflow_checks, steps, op, pre, prev, mark, written>>

FrameTick == BusTickOf(MaxFrames * (SCREEN_H + VBLANK_LINES) * SCANLINE_END)

SpecFrame == Init /\ [][FrameTick]_vars

-----------------------------------------------------------------------------
(* The bus clocked over whole frames with STAT selecting the OAM scan only *)

\* the moments STAT is written: at power-on, while line 0 is drawn, and in
\* the vertical blank
SelectMoments == {0, 100, 66000}

\* MMU::wb(STAT_ADDR, 0x20)
SelectOamScan ==
    /\ elapsed \in SelectMoments
    /\ BusWrite([addr |-> STAT_ADDR, value |-> 32])

SpecOamScan == Init /\ [][SelectOamScan \/ FrameTick]_vars

-----------------------------------------------------------------------------
(* The bus clocked over a frame and the lines after it, with a tile in     *)
(* video RAM that shows on every line of the background                    *)

\* dots clocked: a frame and two lines
MaxRenderDots == 71136

\* the moment SCY is written: line 0 is in H-blank, already composited
ScrollMoments == {300}

\* MMU::wb(0x8000, 0x80) before the clock starts: tile 0 gets the leftmost
\* pixel of its top row set; the tile maps hold 0 everywhere, so the
\* background shows tile 0 all over
LoadTile ==
    /\ elapsed = 0
    /\ DOMAIN mmu.ppu.vram = {}
    /\ BusWrite([addr |-> 32768, value |-> 128])

\* MMU::wb(SCY_ADDR, 1)
Scroll == elapsed \in ScrollMoments /\ BusWrite([addr |-> SCY_ADDR, value |-> 1])

RenderClock == DOMAIN mmu.ppu.vram # {} /\ BusTickOf(MaxRenderDots)

SpecRender == Init /\ [][LoadTile \/ Scroll \/ RenderClock]_vars

-----------------------------------------------------------------------------
(* A line about to be composited with sprites in OAM: a run of sprites on  *)
(* the line, then one at any height, then one more on the line             *)

\* the lines composited
SpriteLines == {0, 143}

\* how many sprites on the line precede the one at any height
LeadingCounts == {0, 9, 10}

\* the leading sprites: [x, tile] showing at columns 0..7, transparent there,
\* or left of the screen
LeadingKinds == {<<8, 2>>, <<8, 0>>, <<0, 2>>}

\* OAM holding n leading sprites of kind lead with Y byte ly + 16, entry n
\* with Y byte y at columns 4..11 and palette OBP1, entry n + 1 with Y byte
\* ly + 16 at columns 16..23
SpriteOam(ly, n, lead, y) ==
    LET Entry(e) == IF e < n THEN <<ly + 16, lead[1], lead[2], 0>>
                    ELSE IF e = n THEN <<y, 12, 2, 16>>
                    ELSE <<ly + 16, 24, 2, 0>>
        set == {i \in 0..(4 * n + 7) : Entry(i \div 4)[(i % 4) + 1] # 0}
    IN [i \in set |-> Entry(i \div 4)[(i % 4) + 1]]

\* tiles 2 and 3 with colour 1 in every pixel, tile 0 left blank
SpriteTiles == [i \in {32 + 2 * r : r \in 0..15} |-> 255]

\* the generator four dots before the end of the drawing of line ly, sprites
\* enabled and h lines high, OBP0 shading colour 1 as 1 and OBP1 as 2
SpritePpu(ly, h, oam) ==
    [PpuInit EXCEPT !.ly = ly, !.dot = DRAW_END - 4, !.mode = ModeDrawing,
                    !.stat = IF ly = 0 THEN 135 ELSE 131,
                    !.lcdc = 147 + (IF h = 16 THEN 4 ELSE 0),
                    !.obp0 = 4, !.obp1 = 8,
                    !.vram = SpriteTiles, !.oam = oam]

SpriteInit ==
    /\ \E ly \in SpriteLines, h \in {8, 16}, n \in LeadingCounts,
          lead \in LeadingKinds, y \in 0..255 :
          PowerOn([MmuNew EXCEPT !.ppu = SpritePpu(ly, h, SpriteOam(ly, n, lead, y))], "none")
    /\ ~overflow_checks

\* self.mmu.tick(1): the tick that takes the line into H-blank
CompositeTick ==
    /\ kind = "init"
    /\ \E t \in {MmuTick(mmu, 1)} :
          /\ mmu' = t.mmu
          /\ irq' = t.irq
          /\ frame_ready' = t.frame_ready
    /\ elapsed' = elapsed + ToTcycles(1)
    /\ kind' = "bus_tick"
    /\ UNCHANGED <<cpu, phase, cycles, fault, overflow_checks, steps, op, pre, prev, mark, written>>

SpecSprites == SpriteInit /\ [][CompositeTick]_vars

-----------------------------------------------------------------------------
(* The frame loop over programs that select the H-blank source of STAT and *)
(* then switch IME while line 0 is drawn                                   *)

\* bound on the number of CPU::step calls explored
MaxArmSteps == 60

\* what the instruction stream holds at pc: LD A,0x08; LDH (0x41),A;
\* LD A,0x02; LDH (0xFF),A at the entry point, and any of NOP, EI, DI, RETI
\* everywhere else
ArmStream(pc) ==
    CASE pc = 256 -> {[op |-> "op_ld_a_d8", imm |-> 8]}
      [] pc = 258 -> {[op |-> "op_ldh_a8_a", imm |-> 65]}
      [] pc = 260 -> {[op |-> "op_ld_a_d8", imm |-> 2]}
      [] pc = 262 -> {[op |-> "op_ldh_a8_a", imm |-> 255]}
      [] OTHER -> {[op |-> o, imm |-> 0] : o \in {"op_nop", "op_ei", "op_di", "op_reti"}}

StepArm == StepOf(ArmStream(cpu.r.pc), MaxArmSteps)

NextArm == RunFrame \/ StepArm \/ Tick

SpecArm == InitRelease /\ [][NextArm]_vars

-----------------------------------------------------------------------------
(* The timer: its registers are written before the clock starts, the       *)
(* divider is reset again later, and the bus is clocked in between         *)

\* dots explored
MaxTimerDots == 1100

\* dots elapsed at which 0xFF04 is written again
DivResetMoments == {300}

\* register writes explored: TAC enabled at each rate, TIMA, TMA, DIV
TimerWrites ==
    {[addr |-> TAC_ADDR, value |-> v] : v \in {4, 5, 6, 7}}
    \cup {[addr |-> TIMA_ADDR, value |-> 255], [addr |-> TMA_ADDR, value |-> 32]}
    \cup {[addr |-> DIV_ADDR, value |-> v] : v \in {0, 90}}

\* MMU::wb of a timer register
TimerWrite ==
    \E w \in TimerWrites :
       /\ elapsed = 0 \/ (w.addr = DIV_ADDR /\ elapsed \in DivResetMoments)
       /\ BusWrite(w)

TimerClock == BusTickOf(MaxTimerDots)

SpecTimer == Init /\ [][TimerWrite \/ TimerClock]_vars

-----------------------------------------------------------------------------
(* OAM DMA: bytes are stored in work RAM, video RAM, high RAM and OAM, and *)
(* pages are written to 0xFF46                                             *)

\* source pages: ROM, video RAM, work RAM, its echo, OAM itself, I/O and high RAM
DmaPages == {0, 128, 192, 224, 254, 255}

\* stores explored: the first and last byte of the work RAM source range, the
\* last of the video RAM and high RAM ones, the first of OAM; then the transfer
DmaWrites ==
    {[addr |-> 49152, value |-> 90], [addr |-> 49152 + 159, value |-> 165],
     [addr |-> 32768 + 159, value |-> 60], [addr |-> 65280 + 159, value |-> 195],
     [addr |-> 65024, value |-> 17]}
    \cup {[addr |-> DMA_ADDR, value |-> page] : page \in DmaPages}

DmaWrite == \E w \in DmaWrites : BusWrite(w)

SpecDma == Init /\ [][DmaWrite]_vars

-----------------------------------------------------------------------------
(* The joypad: a sample per frame, between writes of the selector and of IF *)

\* struct KeyStates
Keys == {"a", "b", "start", "select", "up", "down", "left", "right"}

\* self.mmu.handle_joypad(key_states), whichever keys the host reports held
Sample ==
    /\ \E key_states \in SUBSET Keys : mmu' = HandleJoypad(mmu, key_states)
    /\ kind' = "sample"
    /\ UNCHANGED <<cpu, phase, cycles, frame_ready, fault, overflow_checks, steps, op, irq,
                   pre, prev, elapsed, mark, written>>

\* MMU::wb selecting the buttons (0xD0), the d-pad (0x2F), both or neither, or
\* clearing IF
JoypadWrite ==
    \E w \in {[addr |-> JOYP_ADDR, value |-> v] : v \in {208, 47, 0, 48}}
              \cup {[addr |-> IF_ADDR, value |-> 0]} : BusWrite(w)

SpecJoypad == Init /\ [][Sample \/ JoypadWrite]_vars

-----------------------------------------------------------------------------
(* Every opcode byte fetched: the step of an awake processor with IME clear *)

\* instructions decoded in a row
MaxDecodeSteps == 2

\* CPU::step fetching opcode (and cb after the prefix) at PC, with the flags
\* the instructions before it left; mark is the fetch of the opcode
Decode ==
    /\ fault = "none"
    /\ steps < MaxDecodeSteps
    /\ \E opcode \in 0..255, flags \in {0, 144} :
       \E cb \in IF opcode = 203 THEN 0..255 ELSE {0} :
       \E d \in {Dispatch([cpu EXCEPT !.r.f = flags], opcode, cb)} :
          /\ cpu' = IF d.fault = "none" THEN ImeDelayTick(d.cpu) ELSE d.cpu
          /\ cycles' = d.cycles
          /\ op' = d.op
          /\ fault' = d.fault
          /\ mark' = [addr |-> cpu.r.pc, value |-> opcode, at |-> elapsed, timer |-> mmu.timer]
    /\ steps' = steps + 1
    /\ kind' = "decode"
    /\ UNCHANGED <<mmu, phase, frame_ready, overflow_checks, irq, pre, prev, elapsed, written>>

SpecDecode == Init /\ [][Decode]_vars

-----------------------------------------------------------------------------
(* One call of run_frame followed to its end: the loop runs for as long as *)
(* the tick has not reported a frame, whatever number of steps that takes  *)

\* bound on the instructions the program runs before it executes STOP
MaxLoopSteps == 1

\* the dots of a call that elapsed counts: one line, which tells the first call
\* from a later one
MaxLoopDots == 456

\* the programs followed: LDH (0x40),A writes the power-on A = 0x01 to LCDC,
\* which clears bit 7; HALT and STOP leave the processor waiting
LoopInstructions ==
    {[op |-> "op_stop", imm |-> 0], [op |-> "op_halt", imm |-> 0],
     [op |-> "op_ldh_a8_a", imm |-> 64]}

\* the host calls run_frame with START held: self.mmu.handle_joypad(key_states)
FrameCall ==
    /\ phase = "host"
    /\ elapsed = 0
    /\ mmu' = HandleJoypad(mmu, {"start"})
    /\ phase' = "step"
    /\ kind' = "call"
    /\ UNCHANGED <<cpu, cycles, frame_ready, fault, overflow_checks, steps, op, irq,
                   pre, prev, elapsed, mark, written>>

\* one turn of the loop: let cycles = self.cpu.step(&mut self.mmu); let
\* frame_ready = self.mmu.tick(cycles); if frame_ready { break }. steps counts
\* the turns up to MaxLoopSteps, after which the program holds STOP, and
\* elapsed counts the dots of the call up to MaxLoopDots
LoopTurn ==
    /\ phase = "step"
    /\ fault = "none"
    /\ \E ins \in IF steps < MaxLoopSteps THEN LoopInstructions
                  ELSE {[op |-> "op_stop", imm |-> 0]} :
        \E s \in {CpuStep(cpu, mmu, ins, overflow_checks)} :
           /\ s.kind = "instr" => InScope(cpu, ins)
           /\ cpu' = s.cpu
           /\ cycles' = s.cycles
           /\ kind' = s.kind
           /\ op' = s.op
           /\ fault' = s.fault
           /\ IF s.fault # "none"
              THEN /\ mmu' = s.mmu
                   /\ phase' = "step"
                   /\ UNCHANGED <<irq, frame_ready, elapsed>>
              ELSE \E t \in {MmuTick(s.mmu, s.cycles)} :
                      /\ mmu' = t.mmu
                      /\ irq' = t.irq
                      /\ frame_ready' = t.frame_ready
                      /\ phase' = IF t.frame_ready THEN "host" ELSE "step"
                      /\ elapsed' = IF elapsed + ToTcycles(s.cycles) < MaxLoopDots
                                    THEN elapsed + ToTcycles(s.cycles) ELSE MaxLoopDots
    /\ steps' = IF steps < MaxLoopSteps THEN steps + 1 ELSE steps
    /\ pre' = [ime |-> cpu.ime, halted |-> cpu.halted, pending |-> PendingInterrupts(mmu)]
    /\ prev' = [kind |-> kind, op |-> op, ime |-> pre.ime, halted |-> pre.halted,
                pending |-> pre.pending]
    /\ UNCHANGED <<overflow_checks, mark, written>>

NextLoop == FrameCall \/ LoopTurn

\* run_frame is straight-line code on one thread: once called, its loop goes
\* on to the next turn, so the turn is weakly fair
SpecLoop == InitRelease /\ [][NextLoop]_vars /\ WF_vars(LoopTurn)

-----------------------------------------------------------------------------
(* A cartridge in the slot: the host loads a ROM file, then the program's  *)
(* reads and writes reach the controller through the bus                   *)

\* a ROM file of 128 banks whose header names the controller and the RAM size
RomFile(code, ram_id) ==
    [len |-> 128 * ROM_BANK_SIZE, type_code |-> code, rom_size_id |-> 6, ram_size_id |-> ram_id]

\* Cart::from_bytes(rom, None), then MMU::new(cart) and GameBoy::new
Inserted(roms) ==
    \E rom \in roms : \E loaded \in {CartFromBytes(rom, NoBytes)} :
        PowerOn([MmuNew EXCEPT !.cart = loaded.controller], loaded.fault)

\* the register of the controller that a write to addr sets
Window(c, addr) ==
    CASE addr > 32767 -> "none"
      [] c.controller = "Mbc2" ->
           IF addr > 16383 THEN "none" ELSE IF TestBit(addr, 8) THEN "low" ELSE "enable"
      [] addr < 8192 -> "enable"
      [] addr < 16384 -> "low"
      [] addr < 24576 -> "high"
      [] OTHER -> "mode"

\* the record of the bytes written, after value went to addr; latch is the
\* last byte written to 0x6000-0x7FFF while the enable register last written
\* held the nibble 0xA, forgotten when it is written another
Noted(c, addr, value) ==
    CASE Window(c, addr) = "none" -> written
      [] Window(c, addr) = "enable" ->
           IF value % 16 = 10 THEN [written EXCEPT !.enable = value]
           ELSE [written EXCEPT !.enable = value, !.latch = -1]
      [] Window(c, addr) = "mode" ->
           IF written.enable >= 0 /\ written.enable % 16 = 10
           THEN [written EXCEPT !.mode = value, !.latch = value]
           ELSE [written EXCEPT !.mode = value]
      [] OTHER -> [written EXCEPT ![Window(c, addr)] = value]

\* self.rb(a.addr) or self.wb(a.addr, a.value) at a cartridge address; a
\* panic in the controller ends the program
CartAccess(accesses) ==
    /\ fault = "none"
    /\ \E a \in accesses :
          IF CartPanics(mmu.cart, a.addr, a.write)
          THEN /\ fault' = "panic"
               /\ mark' = [addr |-> a.addr, value |-> a.value, at |-> elapsed,
                           timer |-> mmu.timer]
               /\ kind' = IF a.write THEN "bus_write" ELSE "bus_read"
               /\ UNCHANGED <<mmu, written>>
          ELSE IF a.write
          THEN /\ mmu' = Wb(mmu, a.addr, a.value)
               /\ written' = Noted(mmu.cart, a.addr, a.value)
               /\ mark' = [addr |-> a.addr, value |-> a.value, at |-> elapsed,
                           timer |-> mmu.timer]
               /\ kind' = "bus_write"
               /\ UNCHANGED fault
          ELSE /\ mark' = [addr |-> a.addr, value |-> Rb(mmu, a.addr), at |-> elapsed,
                           timer |-> mmu.timer]
               /\ kind' = "bus_read"
               /\ UNCHANGED <<mmu, written, fault>>
    /\ UNCHANGED <<cpu, phase, cycles, frame_ready, overflow_checks, steps, op, irq, pre,
                   prev, elapsed>>

\* writes of value to addr, and reads of addr
Writes(addrs, values) ==
    {[addr |-> a, value |-> v, write |-> TRUE] : a \in addrs, v \in values}
Reads(addrs) == {[addr |-> a, value |-> 0, write |-> FALSE] : a \in addrs}

\* Type-1 banking: the low, high and mode registers written, both ROM regions read
BankAccesses ==
    Writes({8192}, {0, 34}) \cup Writes({16384}, {0, 1, 11}) \cup Writes({24576}, {0, 1, 2})
    \cup Reads({0, 16383, 16384, 32767})

SpecBank == Inserted({RomFile(1, 0)}) /\ [][CartAccess(BankAccesses)]_vars

\* external RAM: the enable register and two RAM bytes written, the RAM read
RamAccesses ==
    Writes({0}, {10, 5, 0}) \cup Writes({40960, 49151}, {90}) \cup Reads({40960, 49151})

\* the host calls Cart::save at shutdown and the next run hands the bytes,
\* with the same ROM file, to Cart::from_bytes
Reload ==
    /\ fault = "none"
    /\ \E loaded \in {CartFromBytes(mmu.cart.rom, CartSave(mmu.cart))} :
          /\ mmu' = [MmuNew EXCEPT !.cart = loaded.controller]
          /\ fault' = loaded.fault
    /\ written' = NoneWritten
    /\ kind' = "reload"
    /\ UNCHANGED <<cpu, phase, cycles, frame_ready, overflow_checks, steps, op, irq, pre,
                   prev, elapsed, mark>>

\* the system clock moves on to a later second past the RTC's startup: a
\* minute and a second, an hour more, or 257 days, an hour, a minute and a
\* second
WallClock ==
    /\ fault = "none"
    /\ \E now \in {61, 3661, 22208461} :
          /\ now > mmu.cart.rtc.clock
          /\ mmu' = [mmu EXCEPT !.cart.rtc.clock = now]
    /\ kind' = "clock"
    /\ UNCHANGED <<cpu, phase, cycles, frame_ready, fault, overflow_checks, steps, op, irq,
                   pre, prev, elapsed, mark, written>>

\* the clock of a Type-3 cartridge: the enable register and 0x6000 written
RtcAccesses == Writes({0}, {10, 0}) \cup Writes({24576}, {0, 1, 2})

SpecRtc == Inserted({RomFile(16, 3)}) /\ [][CartAccess(RtcAccesses) \/ WallClock]_vars

\* every cartridge type but the plain one, in a file of 0x150 bytes and in one
\* of 128 banks; the header and the RAM window read, a bank register written
SpecLoad ==
    Inserted({[RomFile(code, 0) EXCEPT !.len = n] :
                 code \in 1..255, n \in {HEADER_END + 1, 128 * ROM_BANK_SIZE}})
    /\ [][CartAccess(Reads({256, 40960}) \cup Writes({8192}, {1}))]_vars

\* the RAM banks of a Type-1 cartridge: the enable, high and mode registers
\* and a RAM byte written, the byte read
RamBankAccesses ==
    Writes({0}, {10, 0}) \cup Writes({16384}, {0, 1, 2}) \cup Writes({24576}, {0, 1})
    \cup Writes({40960, 49151}, {90, 165}) \cup Reads({40960, 49151})

\* a Type-1 cartridge with 32 KiB of RAM, four banks
SpecRamBank == Inserted({RomFile(3, 3)}) /\ [][CartAccess(RamBankAccesses)]_vars

\* a plain cartridge: the ends of the ROM and of the RAM window, work RAM
\* and its echo, the unusable region and IE, written and read
PlainAccesses ==
    Writes({0, 32767, 40960, 49151, 49152, 57344, 65184, 65535}, {90, 165})
    \cup Reads({0, 32767, 40960, 49151, 49152, 57344, 65184, 65535})

\* plain cartridges of 2 MiB whose header declares no RAM or 8 KiB of it
SpecPlain == Inserted({RomFile(0, 0), RomFile(0, 2)}) /\ [][CartAccess(PlainAccesses)]_vars

\* cartridges with RAM: Type-1 with and without battery, Type-2, Type-3
SpecRam ==
    Inserted({RomFile(3, 3), RomFile(2, 3), RomFile(6, 0), RomFile(19, 3)})
    /\ [][CartAccess(RamAccesses) \/ Reload]_vars

-----------------------------------------------------------------------------
(* Properties of the interrupt dispatch and of HALT, over the frame loop *)

\* a transition that is one call of CPU::step
StepTaken == phase = "step" /\ steps' = steps + 1

\* a CPU::step that dispatched an interrupt
Dispatches == StepTaken /\ kind' = "dispatch"

\* the source at the lowest set bit of a non-zero mask
LowestPending(p) ==
    CHOOSE i \in Interrupts : TestBit(p, i) /\ \A j \in Interrupts : j < i => ~TestBit(p, j)

\* C1: a dispatch services the source at the lowest set bit of IE & IF & 0x1F:
\* PC becomes that source's vector and that source's IF bit is the one cleared.
C1_LowestBitServiced ==
    [][Dispatches =>
         LET src == LowestPending(PendingInterrupts(mmu))
         IN /\ cpu'.r.pc = InterruptVector(src)
            /\ mmu'.if_ = And8(mmu.if_, Not8(InterruptBit(src)))]_vars

\* C2: a dispatch clears IME, clears in IF exactly the serviced source's bit,
\* lowers SP by 2 modulo 2^16, stores the pre-dispatch PC at the new SP (low
\* byte at SP, high byte at SP+1), returns 5 cycles and fetches no instruction.
C2_DispatchEffect ==
    [][Dispatches =>
         /\ ~cpu'.ime
         /\ \E src \in Interrupts :
               /\ cpu'.r.pc = InterruptVector(src)
               /\ mmu'.if_ = And8(mmu.if_, Not8(InterruptBit(src)))
         /\ cpu'.r.sp = (cpu.r.sp + 65536 - 2) % 65536
         /\ Rb(mmu', cpu'.r.sp) = cpu.r.pc % 256
         /\ Rb(mmu', (cpu'.r.sp + 1) % 65536) = cpu.r.pc \div 256
         /\ cycles' = 5
         /\ op' = "none"]_vars

\* a dispatch of V-Blank with V-Blank and STAT pending: PC 0x0100 is on the stack
C2_Witness ==
    /\ kind = "dispatch"
    /\ pre.ime /\ pre.pending = 3
    /\ ~cpu.ime
    /\ cpu.r.pc = 64
    /\ cpu.r.sp = 65532
    /\ mmu.if_ % 4 = 2
    /\ cycles = 5

\* C3: a step of a processor that is neither stopped nor left halted is a
\* dispatch exactly when IME is true and IE & IF & 0x1F is non-zero; a dispatch
\* executes no instruction, any other such step executes exactly one.
C3_DispatchIffEnabledAndPending ==
    [][(StepTaken /\ ~cpu.stopped /\ ~(cpu.halted /\ PendingInterrupts(mmu) = 0)) =>
         /\ (kind' = "dispatch") <=> (cpu.ime /\ PendingInterrupts(mmu) # 0)
         /\ kind' = "dispatch" => op' = "none"
         /\ kind' # "dispatch" => (kind' = "instr" /\ op' # "none")]_vars

\* C4: EI executed with IME false while an enabled interrupt stays pending: the
\* next step executes the following instruction without a dispatch, IME is
\* true when that instruction completes, and the step after it is the dispatch.
C4_EiDelay ==
    [][StepTaken =>
         /\ (/\ kind = "instr" /\ op = "op_ei"
             /\ ~pre.ime /\ pre.pending # 0
             /\ PendingInterrupts(mmu) # 0)
            => (kind' = "instr" /\ (op' \notin {"op_ei", "op_di"} => cpu'.ime))
         /\ (/\ prev.kind = "instr" /\ prev.op = "op_ei"
             /\ ~prev.ime /\ prev.pending # 0
             /\ kind = "instr" /\ op \notin {"op_ei", "op_di", "op_stop"}
             /\ pre.pending # 0
             /\ PendingInterrupts(mmu) # 0)
            => kind' = "dispatch"]_vars

\* C5: EI immediately followed by DI never enables interrupts: after the DI,
\* IME is false and the EI countdown is zero; the step after an EI executed
\* with IME false is no dispatch; and with IME false and the countdown zero,
\* IME stays false across every step that does not execute EI or RETI.
C5_EiThenDi ==
    [][StepTaken =>
         /\ (kind' = "instr" /\ op' = "op_di") => (~cpu'.ime /\ cpu'.ime_delay = 0)
         /\ (kind = "instr" /\ op = "op_ei" /\ ~pre.ime) => kind' # "dispatch"
         /\ (/\ ~cpu.ime /\ cpu.ime_delay = 0
             /\ ~(kind' = "instr" /\ op' \in {"op_ei", "op_reti"}))
            => (~cpu'.ime /\ cpu'.ime_delay = 0)]_vars

\* EI then DI have just executed, IME false before, an interrupt pending throughout
C5_Witness ==
    /\ prev.kind = "instr" /\ prev.op = "op_ei" /\ ~prev.ime /\ prev.pending # 0
    /\ kind = "instr" /\ op = "op_di" /\ pre.pending # 0
    /\ PendingInterrupts(mmu) # 0
    /\ ~cpu.ime /\ cpu.ime_delay = 0

\* C6: a step of a halted processor with IE & IF & 0x1F zero returns 1 cycle
\* and changes neither processor nor bus; a step that starts halted with it
\* non-zero clears halted, whatever IME is (the instruction that step then
\* fetches may be another HALT).
C6_HaltWaitsThenWakes ==
    [][(StepTaken /\ cpu.halted) =>
         IF PendingInterrupts(mmu) = 0
         THEN kind' = "halt_wait" /\ cycles' = 1 /\ cpu' = cpu /\ mmu' = mmu
         ELSE ~cpu'.halted \/ (kind' = "instr" /\ op' = "op_halt")]_vars

\* a halted processor with IME false has been woken by a pending interrupt
C6_Witness ==
    /\ pre.halted /\ ~pre.ime /\ pre.pending # 0
    /\ kind = "instr"
    /\ ~cpu.halted

\* C7: the step that clears halted with IME true does not itself dispatch;
\* the interrupt is serviced on the subsequent step.
C7_WakeStepDoesNotDispatch ==
    [][StepTaken =>
         /\ (cpu.halted /\ cpu.ime /\ PendingInterrupts(mmu) # 0)
            => (~cpu'.halted /\ kind' # "dispatch")
         /\ (/\ pre.halted /\ pre.ime /\ pre.pending # 0
             /\ ~cpu.halted /\ cpu.ime /\ PendingInterrupts(mmu) # 0)
            => kind' = "dispatch"]_vars

\* C7, as the code has it: the step that finds a halted processor with IME
\* true and IE & IF & 0x1F non-zero clears halted and goes on to the interrupt
\* check in that same step; whenever highest_priority yields a source, that
\* very step is the dispatch (5 cycles, nothing fetched).
C7_WakeStepDispatches ==
    [][(/\ StepTaken
        /\ cpu.halted /\ cpu.ime /\ PendingInterrupts(mmu) # 0
        /\ HighestPriority(PendingInterrupts(mmu), overflow_checks).tag = "some")
       => (/\ ~cpu'.halted
           /\ kind' = "dispatch"
           /\ cycles' = INTERRUPT_CYCLES
           /\ op' = "none")]_vars

\* the step that woke a halted processor with IME true, V-Blank and STAT
\* pending, was the dispatch of V-Blank
C7_Witness ==
    /\ pre.halted /\ pre.ime /\ pre.pending = 3
    /\ kind = "dispatch"
    /\ cpu.r.pc = 64
    /\ ~cpu.halted /\ ~cpu.ime

-----------------------------------------------------------------------------
(* Properties of the bus tick, the flag register and the pixel generator *)

\* a transition that is one call of MMU::tick from the frame loop
TickTaken == phase = "tick" /\ phase' # "tick"

\* dots per frame
FrameDots == (SCREEN_H + VBLANK_LINES) * SCANLINE_END

\* the pixel generator's position within the frame, in dots
DotPos(p) == p.ly * SCANLINE_END + p.dot

\* what C8 says of every step and tick but the pixel generator's advance
TickOrdering ==
    /\ StepTaken => (phase' = "tick" \/ fault' # "none")
    /\ TickTaken =>
         /\ kind \in {"instr", "dispatch", "halt_wait", "stop_wait"}
         /\ phase' \in {"step", "host"}
         /\ cpu' = cpu
         /\ mmu'.timer.div = (mmu.timer.div + 4 * cycles) % 65536
         /\ mmu'.if_ = Or8(mmu.if_, irq')

\* C8: a step completes before the tick runs; the tick for a step that returned
\* C cycles advances the divider by 4*C modulo 2^16 and the pixel generator by
\* 4*C dots; the bits the tick raises are OR-merged into IF, none cleared, and
\* are there for the next step's dispatch check.
C8_TickAdvancesBoth ==
    [][/\ TickOrdering
       /\ TickTaken =>
            DotPos(mmu'.ppu) = (DotPos(mmu.ppu) + 4 * cycles) % FrameDots]_vars

\* C8, as the code has it: the pixel generator advances by 4*C dots when the
\* LCD is enabled and is left as it was when LCDC bit 7 is clear.
C8_TickAdvancesEnabled ==
    [][/\ TickOrdering
       /\ TickTaken =>
            IF LcdOff(mmu.ppu) THEN mmu'.ppu = mmu.ppu
            ELSE DotPos(mmu'.ppu) = (DotPos(mmu.ppu) + 4 * cycles) % FrameDots]_vars

\* a tick has raised the timer interrupt with the LCD off: IF keeps the bits it
\* had, and the next thing to run is a step
C8_Witness ==
    /\ phase = "step"
    /\ irq = InterruptBit(Timer)
    /\ mmu.if_ = 228
    /\ LcdOff(mmu.ppu)
    /\ mmu.timer.div > 0

\* C9: bits 0-3 of F are zero, at initialisation and after every instruction,
\* POP AF of any word included.
C9_FlagLowNibbleZero == cpu.r.f % 16 = 0

\* POP AF has just loaded a word whose low nibble is not zero
C9_Witness ==
    /\ kind = "instr" /\ op = "op_pop_af"
    /\ cpu.r.sp >= 65410
    /\ Rb(mmu, cpu.r.sp - 2) % 16 # 0
    /\ cpu.r.f = Rb(mmu, cpu.r.sp - 2) - (Rb(mmu, cpu.r.sp - 2) % 16)

\* C10: after every tick with the LCD enabled 0 <= dot < 456 and 0 <= LY <= 153;
\* the mode is V-blank exactly when LY >= 144, otherwise OAM-scan for dot 0-79,
\* drawing for dot 80-251, H-blank for dot 252-455; STAT bits 1-0 always equal
\* the mode's code.
C10_ModeFollowsPosition ==
    /\ mmu.ppu.stat % 4 = mmu.ppu.mode
    /\ (kind = "ppu_tick" /\ ~LcdOff(mmu.ppu)) =>
         /\ mmu.ppu.dot \in 0..455
         /\ mmu.ppu.ly \in 0..153
         /\ (mmu.ppu.mode = ModeVBlank) <=> (mmu.ppu.ly >= 144)
         /\ mmu.ppu.ly < 144 =>
              /\ (mmu.ppu.mode = ModeOamScan) <=> (mmu.ppu.dot \in 0..79)
              /\ (mmu.ppu.mode = ModeDrawing) <=> (mmu.ppu.dot \in 80..251)
              /\ (mmu.ppu.mode = ModeHBlank) <=> (mmu.ppu.dot \in 252..455)

\* a tick has wrapped line 153 into line 0 of the next frame
C10_Witness ==
    /\ kind = "ppu_tick"
    /\ ~LcdOff(mmu.ppu)
    /\ frame_ready
    /\ mmu.ppu.ly = 0
    /\ mmu.ppu.mode = ModeOamScan

-----------------------------------------------------------------------------
(* Properties of the pixel generator's frame timing, over whole frames *)

\* a transition that is one call of MMU::tick made by the clock alone
BusTickTaken == kind' = "bus_tick" /\ elapsed' # elapsed

\* dots from power-on to the start of line 144
VBlankDots == SCREEN_H * SCANLINE_END

\* C11: with the LCD enabled a tick returns the V-Blank bit exactly when LY
\* goes from 143 to 144 in it, which is once per 70224 dots, at dot 65664 of
\* each frame; the bit is then set in IF; when 65664 dots have elapsed since
\* power-on LY is 144, IF bit 0 is set and no tick has reported frame-ready.
C11_VBlankOnLine144 ==
    [][(BusTickTaken /\ ~LcdOff(mmu.ppu)) =>
         /\ TestBit(irq', VBlank) <=> (mmu.ppu.ly = 143 /\ mmu'.ppu.ly = 144)
         /\ TestBit(irq', VBlank) <=>
               ((elapsed' + FrameDots - VBlankDots) \div FrameDots
                  > (elapsed + FrameDots - VBlankDots) \div FrameDots)
         /\ TestBit(irq', VBlank) => TestBit(mmu'.if_, VBlank)
         /\ elapsed' = VBlankDots =>
               (mmu'.ppu.ly = 144 /\ TestBit(mmu'.if_, VBlank) /\ TestBit(irq', VBlank))
         /\ elapsed' <= VBlankDots => ~frame_ready']_vars

\* 65664 dots after power-on: line 144 just entered, V-Blank requested
C11_Witness ==
    /\ kind = "bus_tick"
    /\ elapsed = VBlankDots
    /\ mmu.ppu.ly = 144 /\ mmu.ppu.dot = 0
    /\ TestBit(irq, VBlank)
    /\ TestBit(mmu.if_, VBlank)
    /\ ~frame_ready

\* C12: with the LCD enabled throughout, a tick reports frame-ready exactly
\* when LY wraps from 153 to 0 in it, which is when the dots elapsed pass a
\* multiple of 70224; the line and dot always account for every dot elapsed
\* (the excess over a line end is carried); and a tick that reports
\* frame-ready returns no V-Blank bit.
C12_FrameReadyEvery70224 ==
    [][(BusTickTaken /\ ~LcdOff(mmu.ppu)) =>
         /\ frame_ready' <=> (mmu.ppu.ly = 153 /\ mmu'.ppu.ly = 0)
         /\ frame_ready' <=> (elapsed' \div FrameDots > elapsed \div FrameDots)
         /\ DotPos(mmu'.ppu) = elapsed' % FrameDots
         /\ frame_ready' => ~TestBit(irq', VBlank)]_vars

\* the second frame-ready report, 4 dots into the third frame
C12_Witness ==
    /\ kind = "bus_tick"
    /\ frame_ready
    /\ elapsed = 2 * FrameDots + 4
    /\ mmu.ppu.ly = 0 /\ mmu.ppu.dot = 4
    /\ ~TestBit(irq, VBlank)

-----------------------------------------------------------------------------
(* Properties of the STAT interrupt and of the LCD switch *)

\* a transition that is one call of PPU::tick
PpuTickTaken == kind' = "ppu_tick"

\* the STAT line: the OR of the selected conditions that are true
StatLine(p) ==
    \/ p.ly = p.lyc /\ TestBit(p.stat, STAT_LY_LYC)
    \/ p.mode = ModeOamScan /\ TestBit(p.stat, STAT_OAM_SCAN)
    \/ p.mode = ModeVBlank /\ TestBit(p.stat, STAT_VBLANK)
    \/ p.mode = ModeHBlank /\ TestBit(p.stat, STAT_HBLANK)

\* C13: with the LCD enabled and no LYC write waiting to be reported, a tick
\* returns the STAT bit exactly when the STAT line was low before the tick and
\* is high after it; in particular it returns none while the line stays high.
C13_StatRisingEdge ==
    [][(PpuTickTaken /\ ~LcdOff(mmu.ppu) /\ ~mmu.ppu.stat_latch) =>
         (TestBit(irq', Stat) <=> (~StatLine(mmu.ppu) /\ StatLine(mmu'.ppu)))]_vars

\* a step whose instruction wrote LYC a value other than the one it held
LycChanged == StepTaken /\ mmu'.ppu.lyc # mmu.ppu.lyc

\* C14: with the LCD enabled, a write that changes LYC to the current LY while
\* STAT bit 6 is set leaves a STAT request that the tick following the
\* instruction merges into IF bit 1 and clears, so it is reported once; a
\* write that changes LYC to another value, or with bit 6 clear, leaves no
\* request, and a tick without a request that changes neither line nor mode
\* returns no STAT bit.
C14_LycWriteRaisesStat ==
    [][/\ (phase = "step" /\ ~LcdOff(mmu.ppu)) => ~mmu.ppu.stat_latch
       /\ (LycChanged /\ ~LcdOff(mmu.ppu)) =>
             (mmu'.ppu.stat_latch <=>
                (mmu'.ppu.lyc = mmu.ppu.ly /\ TestBit(mmu.ppu.stat, STAT_LY_LYC)))
       /\ (TickTaken /\ ~LcdOff(mmu.ppu)) =>
             /\ ~mmu'.ppu.stat_latch
             /\ mmu.ppu.stat_latch => (TestBit(irq', Stat) /\ TestBit(mmu'.if_, Stat))
             /\ (/\ ~mmu.ppu.stat_latch
                 /\ mmu'.ppu.ly = mmu.ppu.ly
                 /\ mmu'.ppu.mode = mmu.ppu.mode)
                => (~TestBit(irq', Stat) /\ mmu'.if_ = mmu.if_)]_vars

\* LDH (0x45),A has made LYC equal to LY with only bit 6 selected, and the
\* tick after it has set IF bit 1
C14_Witness ==
    /\ phase = "step"
    /\ kind = "instr" /\ op = "op_ldh_a8_a"
    /\ ~LcdOff(mmu.ppu)
    /\ mmu.ppu.lyc = mmu.ppu.ly
    /\ And8(mmu.ppu.stat, 120) = 64
    /\ TestBit(irq, Stat)
    /\ TestBit(mmu.if_, Stat)
    /\ ~mmu.ppu.stat_latch

\* what a disabled pixel generator shows: line 0, dot 0, mode 0 in STAT
LcdOffState(p) ==
    LcdOff(p) => (p.ly = 0 /\ p.dot = 0 /\ p.mode = ModeHBlank /\ p.stat % 4 = 0)

\* C15: in every state with LCDC bit 7 clear LY is 0, the dot counter is 0 and
\* STAT bits 1-0 are 0; a tick made while it is clear leaves the pixel
\* generator as it was, returns neither V-Blank nor STAT and reports no
\* frame-ready, whichever of its registers were written while it was off.
C15_LcdOffHoldsReset ==
    [][/\ LcdOffState(mmu.ppu)
       /\ LcdOffState(mmu'.ppu)
       /\ (PpuTickTaken /\ LcdOff(mmu.ppu)) =>
             /\ mmu'.ppu = mmu.ppu
             /\ ~TestBit(irq', VBlank) /\ ~TestBit(irq', Stat)
             /\ ~frame_ready']_vars

\* the LCD is off, STAT's selects and LYC were written, and a tick has run
C15_Witness ==
    /\ kind = "ppu_tick"
    /\ LcdOff(mmu.ppu)
    /\ mmu.ppu.lyc = 144
    /\ And8(mmu.ppu.stat, 120) = 120
    /\ mmu.ppu.ly = 0 /\ mmu.ppu.dot = 0 /\ mmu.ppu.stat % 4 = 0
    /\ irq = 0 /\ ~frame_ready

-----------------------------------------------------------------------------
(* Properties of the timer *)

\* TIMA after n increments, an increment from 0xFF loading TMA
RECURSIVE Increments(_, _, _)
Increments(tima, tma, n) ==
    IF n = 0 THEN tima
    ELSE Increments(IF tima = 255 THEN tma ELSE tima + 1, tma, n - 1)

\* some of n increments starts from 0xFF
RECURSIVE PassesTop(_, _, _)
PassesTop(tima, tma, n) ==
    IF n = 0 THEN FALSE
    ELSE tima = 255 \/ PassesTop(IF tima = 255 THEN tma ELSE tima + 1, tma, n - 1)

\* dots per TIMA increment for TAC bits 1-0
DotsPerIncrement(tac) ==
    CASE tac % 4 = 0 -> 1024
      [] tac % 4 = 1 -> 16
      [] tac % 4 = 2 -> 64
      [] tac % 4 = 3 -> 256

\* increments due in a tick that adds dots to the remainder of timer t
IncrementsDue(t, dots) == (t.tima_acc + dots) \div DotsPerIncrement(t.tac)

\* C16: in a tick of an enabled timer, an increment that takes TIMA past 0xFF
\* loads TMA (the increments of the tick go on from there), the tick returns
\* the Timer bit and IF has bit 2 set after it; no other IF bit changes; a
\* tick without such an increment returns no Timer bit.  From TAC=0x05,
\* TIMA=0xFF, TMA=0x20 and no remainder, 16 dots give TIMA=0x20.
C16_TimaOverflowLoadsTma ==
    [][(BusTickTaken /\ TestBit(mmu.timer.tac, 2)) =>
         LET t == mmu.timer
             n == IncrementsDue(t, elapsed' - elapsed)
         IN /\ mmu'.timer.tima = Increments(t.tima, t.tma, n)
            /\ TestBit(irq', Timer) <=> PassesTop(t.tima, t.tma, n)
            /\ irq' \in {0, InterruptBit(Timer)}
            /\ mmu'.if_ = Or8(mmu.if_, irq')
            /\ (/\ t.tac = 5 /\ t.tima = 255 /\ t.tma = 32 /\ t.tima_acc = 0
                /\ elapsed' - elapsed = 16)
               => (mmu'.timer.tima = 32 /\ TestBit(mmu'.if_, Timer))]_vars

\* TAC=0x05, TIMA=0xFF, TMA=0x20 were written and 16 dots have elapsed
C16_Witness ==
    /\ kind = "bus_tick"
    /\ mark.timer.tac = 5 /\ mark.timer.tima = 255 /\ mark.timer.tma = 32
    /\ mark.timer.tima_acc = 0
    /\ elapsed = mark.at + 16
    /\ mmu.timer.tima = 32
    /\ irq = InterruptBit(Timer)
    /\ mmu.if_ = 228

\* C17: N dots after a register write that left the remainder at zero, however
\* the ticks divided them, an enabled timer's TIMA has received exactly
\* N div period increments (period 1024, 16, 64, 256 for TAC bits 1-0 = 0, 1,
\* 2, 3) and a disabled timer's TIMA is unchanged; the divider has advanced by
\* N modulo 2^16 either way.
C17_TimerRate ==
    LET base == mark.timer
        n == elapsed - mark.at
    IN /\ mmu.timer.tac = base.tac
       /\ (TestBit(base.tac, 2) /\ base.tima_acc = 0) =>
             mmu.timer.tima =
                Increments(base.tima, base.tma, n \div DotsPerIncrement(base.tac))
       /\ ~TestBit(base.tac, 2) => mmu.timer.tima = base.tima
       /\ mmu.timer.div = (base.div + n) % 65536

\* TAC=0x06 (64 dots per increment): 1000 dots after the write TIMA is 15
C17_Witness ==
    /\ mark.timer.tac = 6 /\ mark.timer.tima = 0 /\ mark.timer.tima_acc = 0
    /\ elapsed = mark.at + 1000
    /\ mmu.timer.tima = 15
    /\ mmu.timer.div = 1000

\* C18: a write of any value to 0xFF04 zeroes the 16-bit divider and changes
\* neither TIMA, TMA nor TAC; N dots after it 0xFF04 reads N div 256 (mod
\* 256): 0 at once and up to 255 dots later, 1 from exactly 256 dots later.
C18_DivWriteZeroes ==
    [][/\ (kind' = "bus_write" /\ mark'.addr = DIV_ADDR) =>
             /\ mmu'.timer.div = 0
             /\ Rb(mmu', DIV_ADDR) = 0
             /\ mmu'.timer.tima = mmu.timer.tima
             /\ mmu'.timer.tma = mmu.timer.tma
             /\ mmu'.timer.tac = mmu.timer.tac
       /\ mark'.addr = DIV_ADDR =>
             Rb(mmu', DIV_ADDR) = ((elapsed' - mark'.at) \div 256) % 256]_vars

\* 0xFF04 was written with the divider at 300 and reads 1, 256 dots later
C18_Witness ==
    /\ mark.addr = DIV_ADDR /\ mark.at = 300
    /\ elapsed = mark.at + 256
    /\ mmu.timer.div = 256
    /\ Rb(mmu, DIV_ADDR) = 1

-----------------------------------------------------------------------------
(* Properties of OAM DMA and of the joypad interrupt *)

\* C19: a write of page P to 0xFF46 leaves, at every 0xFE00+i with i in
\* 0..159, the byte the bus read at P*256+i before the write, and changes
\* nothing of the bus but OAM.
C19_DmaCopiesPage ==
    [][(kind' = "bus_write" /\ mark'.addr = DMA_ADDR) =>
         /\ \A i \in 0..159 :
               Rb(mmu', 65024 + i) = Rb(mmu, mark'.value * 256 + i)
         /\ [mmu' EXCEPT !.ppu.oam = mmu.ppu.oam] = mmu]_vars

\* page 0xC0 was transferred with 0x5A at 0xC000 and 0xA5 at 0xC09F
C19_Witness ==
    /\ kind = "bus_write"
    /\ mark.addr = DMA_ADDR /\ mark.value = 192
    /\ Rb(mmu, 49152) = 90 /\ Rb(mmu, 49152 + 159) = 165
    /\ Rb(mmu, 65024) = 90 /\ Rb(mmu, 65024 + 159) = 165
    /\ Rb(mmu, 65024 + 1) = 0

\* C20: a sample sets IF bit 4 when some key is held in it that was not held
\* in the previous sample, and otherwise leaves IF as it was, whatever the
\* selector written to 0xFF00; it changes nothing else but the remembered keys.
C20_JoypadPressEdge ==
    [][kind' = "sample" =>
         /\ mmu'.if_ =
               IF \E k \in Keys : k \in mmu'.joypad.states /\ k \notin mmu.joypad.states
               THEN Or8(mmu.if_, 16)
               ELSE mmu.if_
         /\ [mmu' EXCEPT !.if_ = mmu.if_, !.joypad.states = mmu.joypad.states] = mmu]_vars

\* with the d-pad selected and IF cleared, a sample holding A and Down has set
\* IF bit 4
C20_Witness ==
    /\ kind = "sample"
    /\ mmu.joypad.joyp = 32
    /\ mmu.joypad.states = {"a", "down"}
    /\ mmu.if_ = 16

-----------------------------------------------------------------------------
(* C21: what a read of 0xFF00 returns *)

\* the keys behind bits 0..3 of each group
ButtonLines == <<"a", "b", "select", "start">>
DpadLines == <<"right", "left", "up", "down">>

\* bit n of the low nibble: low when a selected group holds its key down
KeyLine(v, held, n) ==
    IF \/ (~TestBit(v, 5) /\ ButtonLines[n + 1] \in held)
       \/ (~TestBit(v, 4) /\ DpadLines[n + 1] \in held)
    THEN 0 ELSE 1

\* C21: once v has been written to 0xFF00, a read returns v & 0x30 in bits
\* 5-4 and, in bits 3-0, a 0 for each key held in a selected group (buttons
\* when bit 5 is clear, d-pad when bit 4 is clear, both ANDed when both are
\* clear, 0xF when both are set); the low nibble of v does not matter.
C21_JoypadRead ==
    mark.addr = JOYP_ADDR =>
        Rb(mmu, JOYP_ADDR) =
            And8(mark.value, 48)
            + 8 * KeyLine(mark.value, mmu.joypad.states, 3)
            + 4 * KeyLine(mark.value, mmu.joypad.states, 2)
            + 2 * KeyLine(mark.value, mmu.joypad.states, 1)
            + KeyLine(mark.value, mmu.joypad.states, 0)

\* 0x2F selected the d-pad; with B and Down held the read is 0x27
C21_Witness ==
    /\ mark.addr = JOYP_ADDR /\ mark.value = 47
    /\ mmu.joypad.states = {"b", "down"}
    /\ Rb(mmu, JOYP_ADDR) = 39
    /\ kind = "sample"

-----------------------------------------------------------------------------
(* C22, C23: the ROM banks a Type-1 controller reads *)

\* the last byte written to a register of the controller, masked to the
\* register's width; 0 before any write
LastWritten(register, width) ==
    IF written[register] < 0 THEN 0 ELSE written[register] % width

\* the bank (high << 5) | max(low, 1) of the bytes last written
SwitchableBank ==
    32 * LastWritten("high", 4)
    + (IF LastWritten("low", 32) > 1 THEN LastWritten("low", 32) ELSE 1)

\* C22: in every state of a Type-1 controller, whatever the mode bit, a read
\* at 0x4000+k returns the ROM byte at ((high << 5) | max(low, 1)) * 0x4000 + k,
\* low and high being the last bytes written to 0x2000-0x3FFF and
\* 0x4000-0x5FFF, masked to 5 and 2 bits.
C22_SwitchableRomBank ==
    (fault = "none" /\ mmu.cart.controller = "Mbc1") =>
        \A k \in {0, 16383} :
            /\ ~CartPanics(mmu.cart, 16384 + k, FALSE)
            /\ Rb(mmu, 16384 + k) = RomAt(mmu.cart.rom, SwitchableBank * ROM_BANK_SIZE + k)

\* C23: with the mode bit last written 0, reads at 0x0000-0x3FFF return bank
\* 0; with it 1 they return bank high << 5; the low register has no part in
\* either.
C23_FixedRegionBank ==
    (fault = "none" /\ mmu.cart.controller = "Mbc1") =>
        \A k \in {0, 16383} :
            /\ ~CartPanics(mmu.cart, k, FALSE)
            /\ Rb(mmu, k) =
                  RomAt(mmu.cart.rom,
                        (IF LastWritten("mode", 2) = 0 THEN 0 ELSE 32 * LastWritten("high", 4))
                            * ROM_BANK_SIZE + k)

-----------------------------------------------------------------------------
(* C24: external RAM behind the enable register *)

\* the addresses of the RAM window that are read and written
RamWindow == {40960, 49151}

\* C24: on Type-1, Type-2 and Type-3 controllers, while the last byte written
\* to the RAM-enable register has a low nibble other than 0xA, or none was
\* written, reads at 0xA000-0xBFFF return 0xFF and writes there change no RAM
\* byte.
C24_RamEnableGate ==
    [][(fault = "none" /\ LastWritten("enable", 16) # 10) =>
          /\ \A a \in RamWindow : ~CartPanics(mmu.cart, a, FALSE) /\ Rb(mmu, a) = 255
          /\ (kind' = "bus_write" /\ mark'.addr \in RamWindow) =>
                (fault' = "none" /\ mmu'.cart.ram = mmu.cart.ram)]_vars

-----------------------------------------------------------------------------
(* C26: what Cart::save returns and what the next run restores *)

\* the byte the program reads at addr of RAM bank `bank` once it has enabled
\* the RAM and selected the bank
ReadBack(c, bank, addr) ==
    CartRb(CartWb(CartWb(CartWb(c, 0, 10), 24576, 1), 16384, bank), addr)

\* C26: for a battery-backed cartridge Cart::save returns the external RAM as
\* it is, and the cartridge built from the same ROM and those bytes reads
\* back the same byte at every address and bank; without a battery
\* Cart::save returns nothing.
C26_SaveRoundTrip ==
    [][kind' = "reload" =>
          IF mmu.cart.has_battery
          THEN /\ CartSave(mmu.cart) = [some |-> TRUE, bytes |-> mmu.cart.ram]
               /\ \A bank \in {0, 1} : \A a \in RamWindow :
                     ReadBack(mmu'.cart, bank, a) = ReadBack(mmu.cart, bank, a)
          ELSE ~CartSave(mmu.cart).some]_vars

-----------------------------------------------------------------------------
(* C25: the latch sequence of the Type-3 clock *)

\* the five RTC registers as the program reads them at 0xA000 after selecting
\* each through 0x4000
RtcRegisters(c) == [r \in 8..12 |-> CartRb(CartWb(c, 16384, r), 40960)]

\* seconds, minutes, hours and the two bytes of the day count of a clock
Snapshot(clock) ==
    8 :> clock % 60 @@ 9 :> (clock \div 60) % 60 @@ 10 :> (clock \div 3600) % 24
    @@ 11 :> (clock \div 86400) % 256 @@ 12 :> (clock \div (86400 * 256)) % 256

\* a write to 0x6000-0x7FFF made with RAM and timer enabled, every write to
\* that range before it having been made with them enabled too
LatchWrite ==
    /\ kind' = "bus_write" /\ mark'.addr \in 24576..32767
    /\ LastWritten("enable", 16) = 10
    /\ written.latch >= 0 \/ written.mode < 0

\* C25: with RAM and timer enabled on a Type-3 cartridge with a clock, a write
\* to 0x6000-0x7FFF makes the five RTC registers the snapshot of the counters
\* when it writes 0x01 and the write to that range before it wrote 0x00; any
\* other write there (a 0x01 after something else, a second 0x01, another
\* value) leaves the registers as they were.
C25_RtcLatchSequence ==
    [][LatchWrite =>
          RtcRegisters(mmu'.cart) =
              IF mark'.value = 1 /\ written.latch = 0
              THEN Snapshot(mmu.cart.rtc.clock)
              ELSE RtcRegisters(mmu.cart)]_vars

\* 0x00 then 0x01 latched the clock 257 days, an hour, a minute and a second
\* after startup: every register reads 1
C25_Witness ==
    /\ kind = "bus_write" /\ mark.addr = 24576 /\ mark.value = 1
    /\ mmu.cart.rtc.clock = 22208461
    /\ RtcRegisters(mmu.cart) = [r \in 8..12 |-> 1]

-----------------------------------------------------------------------------
(* C27: a cartridge type that no controller implements *)

\* the type codes of the Plain, Type-1, Type-2 and Type-3 controllers
ImplementedCodes == {0, 1, 2, 3, 5, 6, 15, 16, 17, 18, 19}

\* C27: a ROM file of at least 0x150 bytes whose type code is outside the
\* implemented set, assigned to another controller or to none, loads without
\* fault and gets the Missing controller; the first read or write that
\* reaches the cartridge is the fault.
C27_UnsupportedTypeLoads ==
    mmu.cart.rom.type_code \notin ImplementedCodes =>
        IF kind = "init"
        THEN fault = "none" /\ mmu.cart.controller = "Missing"
        ELSE fault = "panic"

-----------------------------------------------------------------------------
(* C28: the opcodes without an instruction *)

UnusedOpcodes == {211, 219, 221, 227, 228, 235, 236, 237, 244, 252, 253}

\* C28: a step that fetches one of the eleven unused primary opcodes panics
\* with a message that names the address the opcode was fetched from; a step
\* that fetches any other primary opcode, or 0xCB and any second byte, does
\* not panic and returns between 1 and 6 machine cycles.
C28_IllegalOpcodes ==
    [][kind' = "decode" =>
          IF mark'.value \in UnusedOpcodes
          THEN /\ fault' = "Illegal opcode"
               /\ IllegalOpcodePc(cpu') = mark'.addr
               /\ mark'.addr = cpu.r.pc
          ELSE fault' = "none" /\ cycles' \in 1..6]_vars

\* after a two-byte instruction at 0x0100 the opcode 0xED fetched at 0x0102
\* ended the program, and the message names 0x0102
C28_Witness ==
    /\ kind = "decode" /\ fault = "Illegal opcode"
    /\ mark.value = 237 /\ mark.addr = 258
    /\ IllegalOpcodePc(cpu) = 258

-----------------------------------------------------------------------------
(* C29: run_frame returns *)

FrameCalled == phase # "host"

-----------------------------------------------------------------------------
(* C30: PUSH then POP of the same pair *)

\* the pair an instruction pushes or pops
PairOf(o) ==
    CASE o \in {"op_push_bc", "op_pop_bc"} -> "bc"
      [] o \in {"op_push_de", "op_pop_de"} -> "de"
      [] o \in {"op_push_hl", "op_pop_hl"} -> "hl"
      [] o \in {"op_push_af", "op_pop_af"} -> "af"
      [] OTHER -> "none"

PairValue(r, p) ==
    CASE p = "bc" -> r.b * 256 + r.c
      [] p = "de" -> r.d * 256 + r.e
      [] p = "hl" -> r.h * 256 + r.l
      [] p = "af" -> r.a * 256 + r.f

WorkOrHighRam == (49152..57343) \cup (65408..65534)

\* SP-1 and SP-2 lie in work RAM or high RAM
StackInRam(sp) == {(sp + 65535) % 65536, (sp + 65534) % 65536} \subseteq WorkOrHighRam

\* every register but SP and PC
Registers(r) == <<r.a, r.f, r.b, r.c, r.d, r.e, r.h, r.l>>

PushTaken == steps' = steps + 1 /\ kind' = "instr" /\ op' \in PushOps

PopAfterPush ==
    /\ steps' = steps + 1
    /\ kind = "instr" /\ op \in PushOps
    /\ kind' = "instr" /\ op' \in PopOps
    /\ PairOf(op') = PairOf(op)

\* C30: with SP-1 and SP-2 in work RAM or high RAM, PUSH P lowers SP by two,
\* stores the pair's value v little-endian at the new SP and changes no other
\* register or flag; POP P executed next leaves P equal to v and every other
\* register and flag as before the PUSH, returns SP to its value before the
\* PUSH, and the two bytes below SP still hold v little-endian.
C30_StackRoundTrip ==
    [][/\ (PushTaken /\ StackInRam(cpu.r.sp)) =>
             /\ cpu'.r.sp = (cpu.r.sp + 65534) % 65536
             /\ Registers(cpu'.r) = Registers(cpu.r)
             /\ Rb(mmu', cpu'.r.sp) = PairValue(cpu.r, PairOf(op')) % 256
             /\ Rb(mmu', (cpu'.r.sp + 1) % 65536) = PairValue(cpu.r, PairOf(op')) \div 256
       /\ (PopAfterPush /\ StackInRam((cpu.r.sp + 2) % 65536)) =>
             /\ cpu'.r.sp = (cpu.r.sp + 2) % 65536
             /\ Registers(cpu'.r) = Registers(cpu.r)
             /\ Rb(mmu', cpu.r.sp) = PairValue(cpu'.r, PairOf(op')) % 256
             /\ Rb(mmu', (cpu.r.sp + 1) % 65536) = PairValue(cpu'.r, PairOf(op')) \div 256]_vars

\* DE = 0x00D8 was pushed from a stack at the top of work RAM and popped
\* again: SP is back at 0xE000 and 0xDFFE, 0xDFFF hold 0xD8, 0x00
C30_Witness ==
    /\ kind = "instr" /\ op = "op_pop_de"
    /\ prev.kind = "instr" /\ prev.op = "op_push_de"
    /\ cpu.r.sp = 57344
    /\ PairValue(cpu.r, "de") = 216
    /\ Rb(mmu, 57342) = 216 /\ Rb(mmu, 57343) = 0

-----------------------------------------------------------------------------
(* C31: sub8 undoes add8 *)

\* C31: sub8 applied to the sum add8(a, b, c) left, with the same b and c,
\* returns a, sets N and leaves H and C as add8 set them; add8 clears N; both
\* set Z exactly when their result is zero.
C31_AddSubInverse ==
    [][/\ (kind = "add8" /\ kind' = "sub8") =>
             /\ cpu'.r.a = cpu.r.d
             /\ FlagN(cpu'.r)
             /\ FlagH(cpu'.r) = FlagH(cpu.r)
             /\ FlagC(cpu'.r) = FlagC(cpu.r)
       /\ kind' = "add8" => ~FlagN(cpu'.r) /\ (FlagZ(cpu'.r) <=> cpu'.r.a = 0)
       /\ kind' = "sub8" => (FlagZ(cpu'.r) <=> cpu'.r.a = 0)]_vars

\* 0x3F + 0xC1 + 0 gave 0x00 with H and C, and sub8 gave 0x3F back with both
C31_Witness ==
    /\ kind = "sub8" /\ op = "add8"
    /\ cpu.r.a = 63 /\ cpu.r.d = 63 /\ cpu.r.b = 193 /\ cpu.r.c = 0
    /\ FlagN(cpu.r) /\ FlagH(cpu.r) /\ FlagC(cpu.r) /\ ~FlagZ(cpu.r)

-----------------------------------------------------------------------------
(* C32: DAA on packed decimal operands *)

\* both nibbles are decimal digits
IsBcd(x) == (x % 16) <= 9 /\ (x \div 16) <= 9

\* the number a packed decimal byte stands for, and the byte that stands for n
FromBcd(x) == 10 * (x \div 16) + (x % 16)
ToBcd(n) == 16 * (n \div 10) + (n % 10)

DecimalOperands == IsBcd(cpu.r.d) /\ IsBcd(cpu.r.b) /\ cpu.r.c = 0

\* C32: for packed decimal x and y, DAA after ADD leaves the packed (x + y)
\* mod 100 in A with C set iff x + y >= 100; DAA after SUB leaves the packed
\* (x - y) mod 100 with C set iff x < y; either way Z tells whether A is zero,
\* H is clear and N is as DAA found it.
C32_DaaDecimal ==
    [][(kind' = "daa" /\ DecimalOperands) =>
          LET x == FromBcd(cpu.r.d)
              y == FromBcd(cpu.r.b)
          IN /\ kind = "add8" =>
                   /\ cpu'.r.a = ToBcd((x + y) % 100)
                   /\ FlagC(cpu'.r) <=> x + y >= 100
             /\ (kind = "sub8" /\ op = "init") =>
                   /\ cpu'.r.a = ToBcd((x + 100 - y) % 100)
                   /\ FlagC(cpu'.r) <=> x < y
             /\ FlagZ(cpu'.r) <=> cpu'.r.a = 0
             /\ ~FlagH(cpu'.r)
             /\ FlagN(cpu'.r) = FlagN(cpu.r)]_vars

\* 0x99 + 0x01 gave 0x9A, which DAA turned into 0x00 with Z and C
C32_Witness ==
    /\ kind = "daa" /\ op = "add8"
    /\ cpu.r.d = 153 /\ cpu.r.b = 1 /\ cpu.r.c = 0
    /\ cpu.r.a = 0
    /\ FlagZ(cpu.r) /\ FlagC(cpu.r) /\ ~FlagH(cpu.r) /\ ~FlagN(cpu.r)

-----------------------------------------------------------------------------
(* C33: STAT selecting mode 2 only *)

\* STAT bits 3-6 select the OAM scan and nothing else
OnlyOamScanSelected(p) == And8(p.stat, 120) = 32

EntersOamScan == mmu.ppu.mode # ModeOamScan /\ mmu'.ppu.mode = ModeOamScan

\* C33: with the LCD on and STAT selecting mode 2 only, a tick raises the STAT
\* bit exactly when it takes the mode to 2; that happens in every tick that
\* starts a visible line, at the start of that line, and in no other tick but
\* the first after power-on, which starts line 0 - so once per visible line,
\* never during drawing, H-blank or lines 144-153.
C33_OamScanStatOncePerLine ==
    [][(kind' = "bus_tick" /\ ~LcdOff(mmu.ppu) /\ OnlyOamScanSelected(mmu.ppu)) =>
          /\ TestBit(irq', Stat) <=> EntersOamScan
          /\ EntersOamScan =>
                /\ mmu'.ppu.ly < SCREEN_H
                /\ mmu'.ppu.dot <= ToTcycles(MaxCycles)
                /\ mmu'.ppu.ly # mmu.ppu.ly \/ elapsed = 0
          /\ (mmu'.ppu.ly # mmu.ppu.ly /\ mmu'.ppu.ly < SCREEN_H) => EntersOamScan]_vars

\* the tick that started line 143 of the second frame raised the STAT bit
C33_Witness ==
    /\ kind = "bus_tick"
    /\ OnlyOamScanSelected(mmu.ppu)
    /\ mmu.ppu.ly = 143 /\ mmu.ppu.dot = 0 /\ mmu.ppu.mode = ModeOamScan
    /\ elapsed = FrameDots + 143 * SCANLINE_END
    /\ TestBit(irq, Stat)
    /\ TestBit(mmu.if_, Stat)

-----------------------------------------------------------------------------
(* C34: a scanline is composited once *)

\* the tick is the first that leaves the dot counter at DRAW_END or more on a
\* visible line
FirstPastDrawing ==
    /\ kind' = "bus_tick"
    /\ mmu'.ppu.ly < SCREEN_H /\ mmu'.ppu.dot >= DRAW_END
    /\ ~(mmu.ppu.ly = mmu'.ppu.ly /\ mmu.ppu.dot >= DRAW_END)

\* what the background shows at column x of line LY: the leftmost pixel of
\* tile 0's top row, colour 1, which BGP = 0xFC shades 3, every eight columns
\* of every eighth line
TilePattern(p, x) ==
    IF (p.scx + x) % 8 = 0 /\ (p.scy + p.ly) % 8 = 0 THEN 3 ELSE 0

\* C34: with the LCD on and ticks of 4 to 24 dots, the first tick that leaves
\* the dot counter at 252 or more on a visible line leaves row LY of the frame
\* buffer holding that line as the registers then describe it, and no other
\* transition changes the frame buffer: a line is composited once, rows other
\* than LY are never written, and nothing is written on lines 144-153.
C34_CompositedOncePerLine ==
    [][/\ mmu'.ppu.frame_buffer # mmu.ppu.frame_buffer =>
             /\ FirstPastDrawing
             /\ \A i \in DOMAIN mmu.ppu.frame_buffer \cup DOMAIN mmu'.ppu.frame_buffer :
                   MemGet(mmu'.ppu.frame_buffer, i) # MemGet(mmu.ppu.frame_buffer, i)
                      => i \div SCREEN_W = mmu'.ppu.ly
       /\ FirstPastDrawing =>
             \A x \in Columns :
                MemGet(mmu'.ppu.frame_buffer, mmu'.ppu.ly * SCREEN_W + x)
                   = TilePattern(mmu'.ppu, x)]_vars

\* line 0 of the second frame was composited with SCY = 1 over what the first
\* frame left there with SCY = 0, line 8 is as the first frame left it, and
\* line 143 as the first frame composited it after SCY was written
C34_Witness ==
    /\ kind = "bus_tick"
    /\ elapsed > FrameDots
    /\ mmu.ppu.ly = 0 /\ mmu.ppu.mode = ModeHBlank
    /\ mmu.ppu.scy = 1
    /\ MemGet(mmu.ppu.frame_buffer, 0) = 0
    /\ MemGet(mmu.ppu.frame_buffer, 8 * SCREEN_W + 8) = 0
    /\ MemGet(mmu.ppu.frame_buffer, 7 * SCREEN_W + 8) = 3
    /\ MemGet(mmu.ppu.frame_buffer, 143 * SCREEN_W + 152) = 3
    /\ \A i \in DOMAIN mmu.ppu.frame_buffer : i < SCREEN_W * SCREEN_H

-----------------------------------------------------------------------------
(* C35: the sprites of a line *)

\* entry e is on line LY: LY - (y - 16) lies in 0..H-1, as integers
OnLine(p, e) ==
    /\ p.ly - (OamByte(p, e, 0) - 16) >= 0
    /\ p.ly - (OamByte(p, e, 0) - 16) < ObjHeight(p)

\* entry e is among the first ten on the line in ascending address order
AmongFirstTen(p, e) ==
    OnLine(p, e) /\ Cardinality({d \in 0..(e - 1) : OnLine(p, d)}) < MAX_SPRITES_PER_LINE

\* the entries drawn on line LY
FirstTen(p) == {e \in 0..39 : AmongFirstTen(p, e)}

\* entry e has a pixel at column x: its tile is one of the two filled ones
\* and x is one of its eight columns
Shows(p, e, x) ==
    /\ OamByte(p, e, 2) = 2
    /\ x >= OamByte(p, e, 1) - 8 /\ x < OamByte(p, e, 1)

\* the shade at column x when the entries in drawn are drawn: that of the
\* last of them in address order showing there, colour 1 of its palette, or
\* the blank background
SpriteShade(p, drawn, x) ==
    LET Last(showing) == CHOOSE e \in showing : \A d \in showing : d <= e
        ShadeOf(showing) ==
            IF showing = {} THEN 0
            ELSE IF TestBit(OamByte(p, Last(showing), 3), 4) THEN 2 ELSE 1
    IN ShadeOf({e \in drawn : Shows(p, e, x)})

\* C35: a line composited with sprites enabled shows, at every column, the
\* last entry in ascending address order among the first ten entries on the
\* line that has a pixel there, an entry being on the line iff
\* LY - (y - 16) lies in [0, H) as integers, H = 8 or 16 per LCDC bit 2; the
\* eleventh and later entries on the line change no pixel, whatever the first
\* ten show.
C35_TenSpritesInOrder ==
    kind = "bus_tick" =>
       \E drawn \in {FirstTen(mmu.ppu)} :
          \A x \in Columns :
             MemGet(mmu.ppu.frame_buffer, mmu.ppu.ly * SCREEN_W + x)
                = SpriteShade(mmu.ppu, drawn, x)

\* ten transparent sprites come first; the eleventh entry is on the line by
\* its last row, the twelfth by its first, and neither changed a pixel
C35_Witness ==
    /\ kind = "bus_tick"
    /\ mmu.ppu.ly = 143 /\ ObjHeight(mmu.ppu) = 16
    /\ \A e \in 0..9 : OnLine(mmu.ppu, e) /\ OamByte(mmu.ppu, e, 2) = 0
    /\ OamByte(mmu.ppu, 10, 0) = 144 /\ OamByte(mmu.ppu, 10, 1) = 12
    /\ OnLine(mmu.ppu, 10) /\ OnLine(mmu.ppu, 11)
    /\ mmu.ppu.frame_buffer = EmptyMem

-----------------------------------------------------------------------------
(* C36: IME inside a handler *)

\* an instruction other than EI and RETI was executed
OtherThanEiReti == StepTaken /\ kind' = "instr" /\ op' \notin {"op_ei", "op_reti"}

\* C36: from an interrupt dispatch to the next execution of EI or RETI, IME
\* is false: the dispatch leaves IME false and no EI arm pending, whatever was
\* executed before it, and an instruction other than EI and RETI executed with
\* IME false and no arm pending leaves them so.
C36_ImeOffInHandler ==
    [][/\ Dispatches => (~cpu'.ime /\ cpu'.ime_delay = 0)
       /\ (OtherThanEiReti /\ ~cpu.ime /\ cpu.ime_delay = 0)
             => (~cpu'.ime /\ cpu'.ime_delay = 0)
       /\ (OtherThanEiReti /\ kind = "dispatch") => ~cpu'.ime]_vars

\* the handler's first instruction, a NOP, has set IME
C36_ImeOnInHandler ==
    /\ prev.kind = "dispatch" /\ kind = "instr" /\ op = "op_nop"
    /\ cpu.ime

-----------------------------------------------------------------------------
(* C37: the coincidence flag of STAT *)

\* bytes written to STAT
StatBytes == {0, 255}

\* C37: in every state reached by ticks and by writes to LCDC, STAT, LY and
\* LYC, the LCD on or off, bit 2 of STAT is set exactly when LY equals LYC;
\* a write to STAT stores bits 3-6 of the byte written and leaves bits 0-2,
\* bit 7 and every other field of the generator as they were.
C37_CoincidenceFlagMirrors ==
    /\ TestBit(mmu.ppu.stat, 2) <=> (mmu.ppu.ly = mmu.ppu.lyc)
    /\ \A v \in StatBytes :
          \E q \in {PpuWb(mmu.ppu, STAT_ADDR, v)} :
             /\ And8(q.stat, 135) = And8(mmu.ppu.stat, 135)
             /\ And8(q.stat, 120) = And8(v, 120)
             /\ q = [mmu.ppu EXCEPT !.stat = q.stat]

\* LY has reached LYC = 144 with the LCD on, every select of STAT written
C37_Witness ==
    /\ kind = "ppu_tick"
    /\ ~LcdOff(mmu.ppu)
    /\ mmu.ppu.ly = 144 /\ mmu.ppu.lyc = 144
    /\ mmu.ppu.stat = 253

-----------------------------------------------------------------------------
(* C38: the banks of Type-1 external RAM *)

\* the selections of a RAM bank: the mode bit and the high register
RamSelections == {[mode |-> m, high |-> h] : m \in {0, 1}, h \in 0..3}

\* the RAM bank a selection picks: the high register in mode 1, bank 0 in
\* mode 0
RamBankOf(sel) == IF sel.mode = 1 THEN sel.high ELSE 0

\* the selection the cartridge is under
SelectedNow(m) == [mode |-> m.cart.banking_mode, high |-> m.cart.ram_bank_or_upper_rom]

\* the bus after the mode and high registers are written for sel
Selecting(m, sel) == Wb(Wb(m, 24576, sel.mode), 16384, sel.high)

\* a byte was written to external RAM while it was enabled
RamWritten ==
    /\ kind' = "bus_write" /\ fault' = "none"
    /\ InEram(mark'.addr) /\ mark'.at = elapsed
    /\ mmu.cart.ram_enable
    /\ mmu' = Wb(mmu, mark'.addr, mark'.value)

\* C38: on a Type-1 cartridge with RAM present and enabled, a byte written at
\* an address of 0xA000-0xBFFF is what a read of that address returns under
\* the selection (mode bit, high register) it was written under, and under a
\* selection of a different RAM bank the address reads what it read before
\* the write.
C38_RamBankRoundTrip ==
    [][RamWritten =>
         /\ Rb(mmu', mark'.addr) = mark'.value
         /\ \A sel \in RamSelections :
               RamBankOf(sel) # RamBankOf(SelectedNow(mmu))
                  => Rb(Selecting(mmu', sel), mark'.addr) = Rb(Selecting(mmu, sel), mark'.addr)]_vars

\* 0x5A read back from 0xA000 of bank 0 after it was written there in mode 0
\* with the high register at 1
C38_ReadBackBankZero ==
    /\ kind = "bus_read" /\ mark.addr = 40960 /\ mark.value = 90
    /\ mmu.cart.banking_mode = 0 /\ mmu.cart.ram_bank_or_upper_rom = 1

-----------------------------------------------------------------------------
(* C39: STOP *)

\* C39: STOP consumes its padding byte, returns 1 cycle and sets the stopped
\* flag; every CPU::step of a stopped processor returns 1 cycle and leaves the
\* processor and the bus as they were, whatever IME and the pending
\* interrupts are; no transition clears the flag; the tick after such a step
\* advances DIV's counter by 4 and, the LCD being on, the dot counter by 4.
C39_StopAbsorbs ==
    [][/\ (StepTaken /\ kind' = "instr" /\ op' = "op_stop")
             => (/\ cycles' = 1 /\ cpu'.stopped
                 /\ cpu'.r.pc = (cpu.r.pc + 2) % 65536)
       /\ (StepTaken /\ cpu.stopped)
             => (/\ cycles' = 1 /\ kind' = "stop_wait" /\ fault' = "none"
                 /\ cpu' = cpu /\ mmu' = mmu)
       /\ cpu.stopped => cpu'.stopped
       /\ (TickTaken /\ kind = "stop_wait")
             => (/\ cpu' = cpu
                 /\ mmu'.timer.div = Wrap16(mmu.timer.div + 4)
                 /\ ~LcdOff(mmu.ppu)
                       => mmu'.ppu.dot = (mmu.ppu.dot + 4) % SCANLINE_END)]_vars

\* a stopped processor with IME set and an interrupt pending has waited twice
\* and the bus was ticked after the second wait
C39_Witness ==
    /\ kind = "stop_wait" /\ prev.kind = "stop_wait"
    /\ cpu.stopped /\ cpu.ime /\ PendingInterrupts(mmu) # 0
    /\ phase = "step" /\ steps = MaxSteps

-----------------------------------------------------------------------------
(* C40: the plain cartridge on the bus *)

\* C40: with a plain cartridge of at least 32 KiB no bus read and no bus
\* write ends in a fault, the RAM window included when the header declares no
\* RAM, and a write to 0x0000-0x7FFF leaves the bus as it was.
C40_PlainNeverFaults ==
    [][mmu.cart.controller = "RomOnly" =>
         /\ fault' = "none"
         /\ (kind' = "bus_write" /\ InRom(mark'.addr)) => mmu' = mmu]_vars

\* with 8 KiB of RAM declared, the last byte of the RAM window reads back
\* what was written to it, after a write to the ROM that changed nothing
C40_ReadBackWithRam ==
    /\ mmu.cart.controller = "RomOnly" /\ mmu.cart.ram_size = 8192
    /\ kind = "bus_read" /\ mark.addr = 49151 /\ mark.value = 165
    /\ written.enable = 90
    /\ fault = "none"

====
